---- MODULE Spec2Model ----
(***************************************************************************)
(* Model of the voice-agent WebSocket bridge (src/app/api/agent/route.ts,  *)
(* with the configuration module src/unnamed/part_000 and the browser      *)
(* client's opening message from src/unnamed/part_002).                     *)
(*                                                                         *)
(* One behaviour is one upgrade request and the session it creates.  Each  *)
(* action is one run-to-completion step of the JavaScript event loop: the  *)
(* GET handler, or one socket event listener.                              *)
(*                                                                         *)
(* JavaScript values are tagged records.  A string is the pair of its      *)
(* lower-case form and the set of positions that hold an upper-case        *)
(* letter, so that toLowerCase is a real conversion and string equality    *)
(* stays exact.  A JSON text is its parsed value plus a layout tag (the    *)
(* whitespace and key order of the text): JSON.stringify always produces   *)
(* the "compact" layout, so parse-then-stringify is not the identity on    *)
(* texts.                                                                  *)
(***************************************************************************)
EXTENDS Integers, Sequences, FiniteSets, TLC

VARIABLES
    config,          \* process environment read by src/unnamed/part_000
    pairSupport,     \* how the runtime provides WebSocketPair
    response,        \* what GET returned (kind "none" before the request)
    readyState,      \* readyState of every socket created so far
    listeners,       \* <<socket, event>> pairs registered with addEventListener
    fired,           \* <<socket, event>> pairs of error and close events delivered
    fromClient,      \* frames delivered to the `upstream` message listener
    toDeepgram,      \* calls of deepgramSocket.send, in call order
    fromDeepgram,    \* frames delivered to the deepgramSocket message listener
    toClient,        \* calls of upstream.send, in call order
    closeCalls,      \* calls of close() made by closeUpstream / closeClient
    \* The browser client (src/unnamed/part_002, WebSocketProvider):
    connection,      \* useState connection
    voice,           \* useState voice
    currentSpeaker,  \* useState currentSpeaker
    microphoneOpen,  \* useState microphoneOpen
    chatMessages,    \* useState chatMessages
    incomingMessageRef,        \* the open message, or null
    scheduledAudioSourcesRef,  \* buffer sources scheduled by playAudio
    scheduledStartRef,         \* the next-start cursor of playAudio
    audioContextRef,           \* the AudioContext of startStreaming, or null
    contexts,        \* number of AudioContexts created so far
    audioSources,    \* every AudioBufferSourceNode created by playAudio
    socket,          \* readyState of the client's WebSocket to /api/agent
    delivered,       \* frames passed to handleUpstreamMessage, in order
    emitted,         \* what the last run of handleUpstreamMessage applied
    microphoneRef,   \* the MediaStreamAudioSourceNode of startStreaming, or null
    processorRef,    \* the ScriptProcessorNode of startStreaming, or null
    streamRef,       \* the MediaStream of getUserMedia, or null
    captures,        \* per AudioContext created: its state and its capture chain
    pending,         \* calls of startStreaming suspended at an await
    captured         \* number of sendMessage(pcmData.buffer) calls

bridgeVars == <<config, pairSupport, response, readyState, listeners, fired,
                fromClient, toDeepgram, fromDeepgram, toClient, closeCalls>>

captureVars == <<microphoneRef, processorRef, streamRef, captures, pending, captured>>

clientVars == <<connection, voice, currentSpeaker, microphoneOpen, chatMessages,
                incomingMessageRef, scheduledAudioSourcesRef, scheduledStartRef,
                audioContextRef, contexts, audioSources, socket, delivered,
                emitted, captureVars>>

vars == <<bridgeVars, clientVars>>

(***************************************************************************)
(* Bounds of the model.                                                    *)
(***************************************************************************)
MaxClientFrames == 2
MaxDeepgramFrames == 2

(***************************************************************************)
(* JavaScript values.                                                      *)
(***************************************************************************)
JUndefined == [t |-> "undefined"]
JNull == [t |-> "null"]
JStr(lower, caps) == [t |-> "string", lower |-> lower, caps |-> caps]
S(lower) == JStr(lower, {})
JNum(n) == [t |-> "number", n |-> n]
JObj(fields) == [t |-> "object", fields |-> fields]
EmptyFields == [k \in {} |-> JUndefined]
JBool(b) == [t |-> "boolean", b |-> b]
JArr(items) == [t |-> "array", items |-> items]
ArrayBuffer(bytes) == [t |-> "arraybuffer", bytes |-> bytes]
\* A function object (a method inherited from Object.prototype).
JFunction == [t |-> "function"]
\* The outcome of an expression that throws a TypeError instead of giving a
\* value.
TypeError == [t |-> "TypeError"]
Throws(v) == v.t = "TypeError"
IsTrue(v) == v = JBool(TRUE)
\* A content string, as the sequence of its tokens, and a base64 string, as
\* the bytes it encodes (see the values of the browser client below).
Text(tokens) == [t |-> "text", tokens |-> tokens]
Base64(bytes) == [t |-> "base64", bytes |-> bytes, chars |-> 4 * ((Len(bytes) + 2) \div 3)]

IsString(v) == v.t \in {"string", "text", "base64"}
IsArray(v) == v.t = "array"

IsNullish(v) == v.t \in {"undefined", "null"}

\* JavaScript truthiness (Boolean(v), `!v`, `a || b`, `c ? x : y`).
Truthy(v) ==
    CASE v.t = "undefined" -> FALSE
      [] v.t = "null" -> FALSE
      [] v.t = "string" -> v.lower # ""
      [] v.t = "text" -> v.tokens # <<>>
      [] v.t = "base64" -> v.chars > 0
      [] v.t = "number" -> v.n # 0
      [] v.t = "boolean" -> v.b
      [] OTHER -> TRUE

(***************************************************************************)
(* The characters of a string.                                             *)
(***************************************************************************)
LowerLetters == "abcdefghijklmnopqrstuvwxyz"
UpperLetters == "ABCDEFGHIJKLMNOPQRSTUVWXYZ"
DecimalDigits == "0123456789"
Base64Alphabet == UpperLetters \o LowerLetters \o DecimalDigits \o "+/"

CharAt(s, i) == SubSeq(s, i, i)

\* String.prototype.indexOf for one character: from 0, or -1.
IndexOf(s, c) ==
    IF \E i \in 1..Len(s) : CharAt(s, i) = c
    THEN (CHOOSE i \in 1..Len(s) :
             CharAt(s, i) = c /\ \A j \in 1..(i - 1) : CharAt(s, j) # c) - 1
    ELSE -1

IsUpper(c) == IndexOf(UpperLetters, c) >= 0
Upper(c) ==
    IF IndexOf(LowerLetters, c) >= 0
    THEN CharAt(UpperLetters, IndexOf(LowerLetters, c) + 1) ELSE c
Lower(c) ==
    IF IsUpper(c) THEN CharAt(LowerLetters, IndexOf(UpperLetters, c) + 1) ELSE c

CharsOfWord(word) == [i \in 1..Len(word) |-> CharAt(word, i)]

RECURSIVE Flatten(_)
Flatten(tokens) ==
    IF tokens = <<>> THEN <<>>
    ELSE CharsOfWord(Head(tokens)) \o Flatten(Tail(tokens))

\* The base64 text of a sequence of bytes, with its padding.
RECURSIVE EncodeBase64(_)
EncodeBase64(bytes) ==
    IF bytes = <<>> THEN <<>>
    ELSE LET n == Len(bytes)
             b1 == bytes[1]
             b2 == IF n >= 2 THEN bytes[2] ELSE 0
             b3 == IF n >= 3 THEN bytes[3] ELSE 0
             Sextet(k) == CharAt(Base64Alphabet, k + 1)
         IN  << Sextet(b1 \div 4),
                Sextet((b1 % 4) * 16 + b2 \div 16),
                IF n >= 2 THEN Sextet((b2 % 16) * 4 + b3 \div 64) ELSE "=",
                IF n >= 3 THEN Sextet(b3 % 64) ELSE "=" >>
             \o (IF n > 3 THEN EncodeBase64(SubSeq(bytes, 4, n)) ELSE <<>>)

\* The characters of a string value, one per element.
Chars(v) ==
    CASE v.t = "string" ->
            [i \in 1..Len(v.lower) |->
                IF i \in v.caps THEN Upper(CharAt(v.lower, i)) ELSE CharAt(v.lower, i)]
      [] v.t = "text" -> Flatten(v.tokens)
      [] v.t = "base64" -> EncodeBase64(v.bytes)

RECURSIVE Concat(_)
Concat(chars) == IF chars = <<>> THEN "" ELSE Head(chars) \o Concat(Tail(chars))

\* The string made of the given characters.
FromChars(chars) ==
    JStr(Concat([i \in 1..Len(chars) |-> Lower(chars[i])]),
         {i \in 1..Len(chars) : IsUpper(chars[i])})

\* String.prototype.toLowerCase on a string value.
toLowerCase(v) ==
    IF v.t = "string" THEN [v EXCEPT !.caps = {}]
    ELSE IF Throws(v) THEN v
    ELSE [FromChars(Chars(v)) EXCEPT !.caps = {}]

\* String.prototype.trim
RECURSIVE TrimStart(_)
TrimStart(tokens) ==
    IF tokens # <<>> /\ Head(tokens) = " " THEN TrimStart(Tail(tokens)) ELSE tokens

RECURSIVE TrimEnd(_)
TrimEnd(tokens) ==
    IF tokens # <<>> /\ tokens[Len(tokens)] = " "
    THEN TrimEnd(SubSeq(tokens, 1, Len(tokens) - 1)) ELSE tokens

trim(v) ==
    CASE v.t = "text" -> Text(TrimEnd(TrimStart(v.tokens)))
      [] v.t = "string" ->
            LET chars == Chars(v)
                from == Len(chars) - Len(TrimStart(chars))
                kept == Len(TrimEnd(TrimStart(chars)))
            IN  JStr(SubSeq(v.lower, from + 1, from + kept),
                     {i - from : i \in {j \in v.caps : j > from /\ j <= from + kept}})
      [] OTHER -> v

\* Property read `v.key` on a non-nullish value: own field of an object,
\* undefined on a primitive (none of the keys read is a String/Number member).
Get(v, key) ==
    IF v.t = "object" /\ key \in DOMAIN v.fields THEN v.fields[key] ELSE JUndefined

\* Optional chaining `v?.key`.
OptGet(v, key) == IF IsNullish(v) THEN JUndefined ELSE Get(v, key)

\* Nullish coalescing `a ?? b`.
Coalesce(a, b) == IF IsNullish(a) THEN b ELSE a

\* Logical or `a || b`.
Or(a, b) == IF Truthy(a) THEN a ELSE b

\* The property names "0", "1", ... of the first n indices.
IndexKeys(n) == {ToString(i - 1) : i \in 1..n}
IndexOfKey(k, n) == CHOOSE i \in 1..n : ToString(i - 1) = k

\* Object spread `{...v}`: own enumerable fields; a string spreads its
\* characters and an array its items under index keys, every other
\* primitive spreads nothing.
Spread(v) ==
    CASE v.t = "object" -> v.fields
      [] IsString(v) ->
            LET chars == Chars(v)
            IN  [k \in IndexKeys(Len(chars)) |->
                    FromChars(<<chars[IndexOfKey(k, Len(chars))]>>)]
      [] IsArray(v) ->
            [k \in IndexKeys(Len(v.items)) |-> v.items[IndexOfKey(k, Len(v.items))]]
      [] OTHER -> EmptyFields

\* Object literal built from `base` followed by later properties `over`.
Merge(base, over) ==
    [k \in (DOMAIN base) \cup (DOMAIN over) |->
        IF k \in DOMAIN over THEN over[k] ELSE base[k]]

(***************************************************************************)
(* JSON texts.                                                             *)
(***************************************************************************)
MaxDepth == 4

\* What JSON.stringify keeps of a value: properties whose value is
\* undefined or a function are omitted, at every depth.
RECURSIVE Serializable(_, _)
Serializable(v, depth) ==
    IF v.t # "object" \/ depth = 0 THEN v
    ELSE LET keep == {k \in DOMAIN v.fields : v.fields[k].t \notin {"undefined", "function"}}
         IN JObj([k \in keep |-> Serializable(v.fields[k], depth - 1)])

JSONstringify(v) ==
    [valid |-> TRUE, value |-> Serializable(v, MaxDepth), layout |-> "compact"]

\* JSON.parse: the value of a well-formed text, a SyntaxError otherwise.
JSONparse(text) ==
    IF text.valid THEN [threw |-> FALSE, value |-> text.value]
    ELSE [threw |-> TRUE, value |-> JUndefined]

StringFrame(text) == [kind |-> "string", text |-> text]
BinaryFrame(bytes) == [kind |-> "binary", bytes |-> bytes]

(***************************************************************************)
(* Constants of src/app/api/agent/route.ts and of the browser client.      *)
(***************************************************************************)
READY_STATES == [CONNECTING |-> 0, OPEN |-> 1, CLOSING |-> 2, CLOSED |-> 3]

BYO_DEFAULT_MODELS ==
    [openai |-> S("gpt-4o-mini"), claude |-> S("claude-3-haiku-20240307")]

\* The methods an object literal inherits from Object.prototype.
ObjectPrototypeMethods ==
    {S("constructor"), JStr("tostring", {3}), JStr("tolocalestring", {3, 9}),
     JStr("valueof", {6}), JStr("hasownproperty", {4, 7}),
     JStr("isprototypeof", {3, 12}), JStr("propertyisenumerable", {9, 11}),
     JStr("__definegetter__", {9}), JStr("__definesetter__", {9}),
     JStr("__lookupgetter__", {9}), JStr("__lookupsetter__", {9})}

\* Property read BYO_DEFAULT_MODELS[key] for a string key: an own property
\* of the literal, else what it inherits: a method of Object.prototype, or
\* Object.prototype itself (no own enumerable property) for "__proto__".
DefaultModelFor(key) ==
    IF key.caps = {} /\ key.lower \in DOMAIN BYO_DEFAULT_MODELS
    THEN BYO_DEFAULT_MODELS[key.lower]
    ELSE IF key \in ObjectPrototypeMethods THEN JFunction
    ELSE IF key = S("__proto__") THEN JObj(EmptyFields)
    ELSE JUndefined

DEFAULT_VOICE == S("aura-asteria-en")
OUTPUT_SAMPLE_RATE == 24000
systemContent == S("you are a helpful voice assistant")

buildAgentRequestPayload(voiceName) ==
    JObj([type |-> S("agent-request"),
          agent |-> JObj([model |-> voiceName, instructions |-> trim(systemContent)]),
          conversation |-> JObj([metadata |->
              JObj([application |-> S("deepgram-ai-agent-demo")])]),
          audio |-> JObj([format |-> S("linear16"),
                          sample_rate |-> JNum(OUTPUT_SAMPLE_RATE)])])

(***************************************************************************)
(* Inputs: environments, upgrade headers, frames and close events.         *)
(***************************************************************************)
ApiKeySettings == {JUndefined, S(""), S("dg-secret-key")}
ProviderSettings ==
    {JUndefined, S(""), JStr("openai", {1, 5, 6}), S("claude"), S("groq"),
     S("constructor"), S("__proto__")}
LlmKeySettings == {JUndefined, S(""), S("sk-byo")}
LlmModelSettings == {JUndefined, S(""), S("my-model")}
PairSupports == {"global", "importFails", "importUndefined"}

\* request.headers.get("upgrade"): null when the header is absent.
UpgradeHeaders == {JNull, S("websocket"), JStr("websocket", {1, 4}), S("h2c")}

InvalidText == [valid |-> FALSE, value |-> JUndefined, layout |-> "raw"]
SpacedText(v) == [valid |-> TRUE, value |-> v, layout |-> "spaced"]

\* The frame the browser client sends from onOpen: the request built from
\* the voice of the state.
AgentRequestFrame ==
    StringFrame(JSONstringify(buildAgentRequestPayload(voice)))
\* The frame stopStreaming sends.
CloseStreamFrame ==
    StringFrame(JSONstringify(JObj([type |-> JStr("closestream", {1, 6})])))
\* A frame produced by onaudioprocess.
AudioFrame == BinaryFrame(<<1, 2>>)

\* What the browser client sends after its agent request.
StreamingFrames == {AudioFrame, CloseStreamFrame}

\* An agent request that already carries a think block, instructions, and
\* fields the bridge knows nothing about.
ThinkingRequestFrame ==
    StringFrame(SpacedText(JObj(
        [type |-> S("agent-request"),
         agent |-> JObj([instructions |-> JStr("be brief", {1}),
                         think |-> JObj([provider |-> JObj([type |-> S("mine")])]),
                         listen |-> JObj([model |-> S("nova-2")])]),
         audio |-> JObj([format |-> S("linear16")]),
         tag |-> JNull])))

\* What any WebSocket client can send.
ClientFrames ==
    { AgentRequestFrame,
      ThinkingRequestFrame,
      AudioFrame,
      CloseStreamFrame,
      StringFrame(InvalidText),
      StringFrame(SpacedText(JObj([type |-> JStr("agent-request", {1, 7}),
                                   audio |-> JObj([format |-> S("linear16")])]))),
      StringFrame(SpacedText(JObj([type |-> S("agent-request"),
                                   agent |-> JNull]))),
      StringFrame(SpacedText(JObj([type |-> S("agent-request"),
                                   agent |-> S("x")]))),
      StringFrame(SpacedText(JObj([type |-> S("agent-request"),
                                   agent |-> JArr(<<S("a"), JNum(2)>>)]))),
      StringFrame(SpacedText(JObj([type |-> S("agent-request"),
                                   agent |-> JNum(5)]))),
      StringFrame(SpacedText(JObj([type |-> S("agent-requests")]))),
      StringFrame(SpacedText(JObj([type |-> JNum(5)]))),
      StringFrame(SpacedText(JObj([agent |-> JObj([model |-> DEFAULT_VOICE])]))),
      StringFrame(SpacedText(JNull)),
      StringFrame(SpacedText(S("agent-request"))) }

DeepgramFrames ==
    { StringFrame(SpacedText(JObj([type |-> JStr("welcome", {1})]))),
      BinaryFrame(<<7>>) }

\* CloseEvent payloads: a clean close with a status, a clean close that
\* carried no status (code 1005), an abnormal termination (code 1006).
CloseEvents ==
    { [code |-> 1000, reason |-> "done"],
      [code |-> 1005, reason |-> ""],
      [code |-> 1006, reason |-> ""] }

(***************************************************************************)
(* GET: validation (route.ts lines 26-42).                                 *)
(***************************************************************************)
\* Variant: the key is tested against undefined only (an empty key passes).
ApiKeyMissingOnlyUndefined == config.deepGramApiKey.t = "undefined"

\* `!config.deepGramApiKey`
ApiKeyMissing == ~Truthy(config.deepGramApiKey)

\* Variant: an absent header is let through
\* (`header && header.toLowerCase() !== "websocket"`).
UpgradeRejectedWhenPresent(header) ==
    Truthy(header) /\ toLowerCase(header) # S("websocket")

\* `request.headers.get("upgrade")?.toLowerCase() !== "websocket"`
UpgradeRejected(header) ==
    LET lowered == IF IsNullish(header) THEN JUndefined ELSE toLowerCase(header)
    IN  lowered # S("websocket")

(***************************************************************************)
(* GET: the bring-your-own-model settings (route.ts lines 44-49).          *)
(***************************************************************************)
llmProvider ==
    IF IsNullish(config.llmProvider) THEN JUndefined
    ELSE toLowerCase(config.llmProvider)

llmApiKey == config.llmApiKey

llmModel ==
    Or(config.llmModel,
       IF Truthy(llmProvider) THEN DefaultModelFor(llmProvider) ELSE JUndefined)

\* Variant: either setting alone enables the injection.
shouldInjectWithEitherSetting == Truthy(llmProvider) \/ Truthy(llmApiKey)

shouldInjectExternalLlm == Truthy(llmProvider) /\ Truthy(llmApiKey)

(***************************************************************************)
(* The outbound rewriter (route.ts lines 62-97).  The result is the        *)
(* rewritten text, or null.                                                *)
(***************************************************************************)
NullResult == [isNull |-> TRUE, text |-> InvalidText]

\* Variant: the discriminator is not compared, an object with any string
\* type is rewritten.
TypeCheckAnyString(parsed) ==
    LET ty == Coalesce(OptGet(parsed, "type"), S(""))
    IN  IF ty.t # "string" THEN "throws"
        ELSE IF parsed.t # "object" THEN "other"
        ELSE "agent-request"

\* `(parsed?.type ?? "").toLowerCase() !== "agent-request"`; calling
\* toLowerCase on a value that is not a string throws a TypeError.
TypeCheck(parsed) ==
    LET ty == Coalesce(OptGet(parsed, "type"), S(""))
    IN  IF ty.t # "string" THEN "throws"
        ELSE IF toLowerCase(ty) # S("agent-request") THEN "other"
        ELSE "agent-request"

thinkConfig ==
    JObj([provider |->
              JObj(Merge([k \in {"type"} |-> llmProvider],
                         IF Truthy(llmModel)
                         THEN [k \in {"model"} |-> llmModel]
                         ELSE EmptyFields)),
          auth |-> JObj([type |-> S("api_key"), value |-> llmApiKey])])

\* Variant: the new agent object is built without spreading the old one.
WithThinkReplacingAgent(parsed) ==
    LET agent == Coalesce(Get(parsed, "agent"), JObj(EmptyFields))
        existingInstructions == Get(agent, "instructions")
        newAgent == JObj([instructions |-> existingInstructions,
                          think |-> thinkConfig])
    IN  JObj(Merge(parsed.fields, [k \in {"agent"} |-> newAgent]))

WithThink(parsed) ==
    LET agent == Coalesce(Get(parsed, "agent"), JObj(EmptyFields))
        existingInstructions == Get(agent, "instructions")
        newAgent == JObj(Merge(Spread(agent),
                               [instructions |-> existingInstructions,
                                think |-> thinkConfig]))
    IN  JObj(Merge(parsed.fields, [k \in {"agent"} |-> newAgent]))

injectExternalThinkSettings(message) ==
    IF ~shouldInjectExternalLlm THEN NullResult
    ELSE LET parsed == JSONparse(message)
         IN  IF parsed.threw THEN NullResult
             ELSE IF TypeCheck(parsed.value) # "agent-request" THEN NullResult
             ELSE [isNull |-> FALSE,
                   text |-> JSONstringify(WithThink(parsed.value))]

(***************************************************************************)
(* Sockets.                                                                *)
(***************************************************************************)
NoSockets == [s \in {} |-> READY_STATES.CLOSED]

Created(sock) == sock \in DOMAIN readyState

\* WebSocket.close(code, reason) of the edge runtime that provides
\* WebSocketPair: a code outside 1000..4999, or one of the reserved codes
\* that never travel in a Close frame, makes close() throw.
CloseCodeAccepted(code) ==
    code \in 1000..4999 /\ code \notin {1004, 1005, 1006, 1015}

\* Variant: close() is called whatever the readyState of the socket.
UnguardedClose(sock, rs, calls, code, reason, cause) ==
    IF CloseCodeAccepted(code)
    THEN [rs |-> [rs EXCEPT ![sock] =
                     IF @ = READY_STATES.CLOSED THEN @ ELSE READY_STATES.CLOSING],
          calls |-> Append(calls,
              [target |-> sock, code |-> code, reason |-> reason,
               outcome |-> "closing", cause |-> cause])]
    ELSE [rs |-> rs,
          calls |-> Append(calls,
              [target |-> sock, code |-> code, reason |-> reason,
               outcome |-> "threw", cause |-> cause])]

\* The guarded close shared by closeUpstream and closeClient: close() is
\* called only on an OPEN or CONNECTING socket, and an exception it throws
\* is caught.  The result is the new readyState map and the new call log.
GuardedClose(sock, rs, calls, code, reason, cause) ==
    IF rs[sock] = READY_STATES.OPEN \/ rs[sock] = READY_STATES.CONNECTING
    THEN IF CloseCodeAccepted(code)
         THEN [rs |-> [rs EXCEPT ![sock] = READY_STATES.CLOSING],
               calls |-> Append(calls,
                   [target |-> sock, code |-> code, reason |-> reason,
                    outcome |-> "closing", cause |-> cause])]
         ELSE [rs |-> rs,
               calls |-> Append(calls,
                   [target |-> sock, code |-> code, reason |-> reason,
                    outcome |-> "threw", cause |-> cause])]
    ELSE [rs |-> rs, calls |-> calls]

closeUpstream(rs, calls, code, reason, cause) ==
    GuardedClose("deepgramSocket", rs, calls, code, reason, cause)

closeClient(rs, calls, code, reason, cause) ==
    GuardedClose("upstream", rs, calls, code, reason, cause)

\* The event a listener is handling when it calls close().
Cause(sock, event, code, reason) ==
    [sock |-> sock, event |-> event, code |-> code, reason |-> reason]

Fired(sock, event) == <<sock, event>> \in fired

(***************************************************************************)
(* The browser client (src/unnamed/part_002): values of its payloads.      *)
(*                                                                         *)
(* Besides the strings above (discriminators, compared by letter case),    *)
(* the client handles content strings and encoded audio.  A content string *)
(* is the sequence of its tokens: a maximal run of characters that are not *)
(* whitespace is one token, and every whitespace character is the token    *)
(* " ".  A base64 string is the bytes it decodes to and its number of      *)
(* characters; typeof is "string" for all three.                           *)
(***************************************************************************)
\* `v?.[i]` for an index: an item of an array, a character of a string,
\* the property of an object whose name is the index.
OptIndex(v, i) ==
    IF IsArray(v) /\ i + 1 \in DOMAIN v.items THEN v.items[i + 1]
    ELSE IF IsString(v) /\ i + 1 \in DOMAIN Chars(v)
    THEN FromChars(<<Chars(v)[i + 1]>>)
    ELSE IF v.t = "object" THEN Get(v, ToString(i))
    ELSE JUndefined

\* String(v).  An array is the comma-joined String of its items, "" for a
\* nullish item.  An object is converted by its toString: the inherited
\* one gives "[object Object]"; an own property toString of a parsed object
\* is no function, the inherited valueOf then returns the object itself,
\* and the conversion throws a TypeError.
RECURSIVE String(_)
String(v) ==
    CASE v.t = "string" -> v
      [] v.t \in {"text", "base64"} -> FromChars(Chars(v))
      [] v.t = "undefined" -> S("undefined")
      [] v.t = "null" -> S("null")
      [] v.t = "arraybuffer" -> JStr("[object arraybuffer]", {9, 14})
      [] v.t = "number" -> S(ToString(v.n))
      [] v.t = "boolean" -> S(IF v.b THEN "true" ELSE "false")
      [] v.t = "array" ->
            IF v.items = <<>> THEN S("")
            ELSE LET first == IF IsNullish(Head(v.items)) THEN S("")
                              ELSE String(Head(v.items))
                 IN  IF Throws(first) \/ Len(v.items) = 1 THEN first
                     ELSE LET rest == String(JArr(Tail(v.items)))
                          IN  IF Throws(rest) THEN rest
                              ELSE JStr(first.lower \o "," \o rest.lower,
                                        first.caps \cup
                                        {i + Len(first.lower) + 1 : i \in rest.caps})
      [] v.t = "object" ->
            IF "toString" \in DOMAIN v.fields THEN TypeError
            ELSE JStr("[object object]", {9})
      [] v.t = "function" -> JStr("function () { [native code] }", {})
      [] OTHER -> v

\* `.replace(/\s+/g, " ")`: every run of whitespace becomes one space.
RECURSIVE CollapseRuns(_)
CollapseRuns(tokens) ==
    IF Len(tokens) < 2 THEN tokens
    ELSE IF tokens[1] = " " /\ tokens[2] = " " THEN CollapseRuns(Tail(tokens))
    ELSE <<Head(tokens)>> \o CollapseRuns(Tail(tokens))

replaceWhitespaceRuns(v) == IF Throws(v) THEN v ELSE Text(CollapseRuns(v.tokens))

\* The tokens of a sequence of characters.
RECURSIVE Tokenize(_)
Tokenize(chars) ==
    IF chars = <<>> THEN <<>>
    ELSE LET rest == Tokenize(Tail(chars))
         IN  IF Head(chars) = " " THEN <<" ">> \o rest
             ELSE IF rest # <<>> /\ Head(rest) # " "
             THEN <<Head(chars) \o Head(rest)>> \o Tail(rest)
             ELSE <<Head(chars)>> \o rest

\* The tokens of a string.
TokensOf(str) == IF str.t = "text" THEN str.tokens ELSE Tokenize(Chars(str))

\* The strings a join or a template literal converts its values to; a join
\* converts a nullish item to the empty string.
Strings(items, nullishIsEmpty) ==
    [i \in 1..Len(items) |->
        IF IsString(items[i]) THEN items[i]
        ELSE IF nullishIsEmpty /\ IsNullish(items[i]) THEN Text(<<>>)
        ELSE String(items[i])]

\* The tokens of strings put together with a space between them.
RECURSIVE Spaced(_)
Spaced(strs) ==
    IF strs = <<>> THEN <<>>
    ELSE TokensOf(Head(strs))
         \o (IF Len(strs) = 1 THEN <<>> ELSE <<" ">> \o Spaced(Tail(strs)))

\* The conversion of any of the values may throw.
JoinStrings(strs) ==
    IF \E i \in DOMAIN strs : Throws(strs[i]) THEN TypeError
    ELSE IF Len(strs) = 1 THEN strs[1]
    ELSE Text(Spaced(strs))

\* The template literal `${a} ${b}`.
SpaceJoined(a, b) == JoinStrings(Strings(<<a, b>>, FALSE))

\* `items.join(" ")`
Join(items) == JoinStrings(Strings(items, TRUE))
JoinTruthy(items) == Join(SelectSeq(items, Truthy))

(***************************************************************************)
(* The message classifier (part_002 lines 53-169).                         *)
(***************************************************************************)
\* atob (forgiving base64 decoding) of characters without whitespace: the
\* bytes, or an InvalidCharacterError.
RECURSIVE DecodeSextets(_)
DecodeSextets(sextets) ==
    LET n == Len(sextets)
    IN  IF n < 2 THEN <<>>
        ELSE LET s3 == IF n >= 3 THEN sextets[3] ELSE 0
                 s4 == IF n >= 4 THEN sextets[4] ELSE 0
             IN  << sextets[1] * 4 + sextets[2] \div 16 >>
                 \o (IF n >= 3 THEN << (sextets[2] % 16) * 16 + s3 \div 4 >> ELSE <<>>)
                 \o (IF n >= 4 THEN << (s3 % 4) * 64 + s4 >> ELSE <<>>)
                 \o (IF n > 4 THEN DecodeSextets(SubSeq(sextets, 5, n)) ELSE <<>>)

atob(data) ==
    LET n == Len(data)
        unpadded ==
            IF n > 0 /\ n % 4 = 0 /\ data[n] = "="
            THEN IF data[n - 1] = "=" THEN SubSeq(data, 1, n - 2)
                 ELSE SubSeq(data, 1, n - 1)
            ELSE data
    IN  IF \/ Len(unpadded) % 4 = 1
           \/ \E i \in 1..Len(unpadded) : IndexOf(Base64Alphabet, unpadded[i]) < 0
        THEN [threw |-> TRUE, binary |-> <<>>]
        ELSE [threw |-> FALSE,
              binary |-> DecodeSextets([i \in 1..Len(unpadded) |->
                                           IndexOf(Base64Alphabet, unpadded[i])])]

IsNotWhitespace(c) == c # " "

\* decodeBase64: atob of the value without its whitespace, null when atob
\* throws (or the value is no string and has no replace method).
decodeBase64(value) ==
    IF ~IsString(value) THEN JNull
    ELSE LET decoded == atob(SelectSeq(Chars(value), IsNotWhitespace))
         IN  IF decoded.threw THEN JNull ELSE ArrayBuffer(decoded.binary)

UserAliases == {S("user"), S("customer"), S("caller")}
ModelAliases ==
    {S("assistant"), S("agent"), S("ai"), S("model"), S("bot"), S("system")}

\* The value parseSpeaker normalises: the first truthy of five fields.
SpeakerField(payload) ==
    Or(Or(Or(Or(OptGet(payload, "speaker"),
                OptGet(payload, "role")),
             OptGet(payload, "participant")),
          OptGet(OptGet(payload, "metadata"), "speaker")),
       OptGet(payload, "source"))

\* Variant: the letter case of the token is not normalised.
parseSpeakerCaseSensitive(payload) ==
    LET speaker == SpeakerField(payload)
    IN  IF ~Truthy(speaker) THEN JNull
        ELSE LET normalised == String(speaker)
             IN  IF Throws(normalised) THEN normalised
                 ELSE IF normalised \in UserAliases THEN S("user")
                 ELSE IF normalised \in ModelAliases THEN S("model")
                 ELSE JNull

parseSpeaker(payload) ==
    LET speaker == SpeakerField(payload)
    IN  IF ~Truthy(speaker) THEN JNull
        ELSE LET normalised == toLowerCase(String(speaker))
             IN  IF Throws(normalised) THEN normalised
                 ELSE IF normalised \in UserAliases THEN S("user")
                 ELSE IF normalised \in ModelAliases THEN S("model")
                 ELSE JNull

WordOf(w) == OptGet(w, "word")

\* `payload.words.map((w) => w?.word)`
Words(items) == [i \in 1..Len(items) |-> WordOf(items[i])]

extractTranscriptText(payload) ==
    IF ~Truthy(payload) THEN JNull
    ELSE IF IsString(Get(payload, "transcript")) THEN Get(payload, "transcript")
    ELSE IF IsString(Get(payload, "text")) THEN Get(payload, "text")
    ELSE IF IsString(Get(payload, "content")) THEN Get(payload, "content")
    ELSE LET alternative ==
                 Or(Or(OptIndex(OptGet(Get(payload, "channel"), "alternatives"), 0),
                       OptIndex(Get(payload, "alternatives"), 0)),
                    OptIndex(OptGet(Get(payload, "results"), "alternatives"), 0))
         IN  IF Truthy(OptGet(alternative, "transcript"))
             THEN OptGet(alternative, "transcript")
             ELSE IF IsArray(Get(payload, "words"))
             THEN JoinTruthy(Words(Get(payload, "words").items))
             ELSE JNull

\* The numeric value of a string (StringToNumber), as far as its sign:
\* whether it is a number greater than zero.
AllIn(chars, alphabet) ==
    chars # <<>> /\ \A i \in 1..Len(chars) : IndexOf(alphabet, chars[i]) >= 0

HasNonZero(chars) == \E i \in 1..Len(chars) : chars[i] # "0"

\* The position of the first character of `chars` that is in `set`, or 0.
FirstIn(chars, set) ==
    IF \E i \in 1..Len(chars) : chars[i] \in set
    THEN CHOOSE i \in 1..Len(chars) :
            chars[i] \in set /\ \A j \in 1..(i - 1) : chars[j] \notin set
    ELSE 0

RECURSIVE DigitsValue(_)
DigitsValue(chars) ==
    IF chars = <<>> THEN 0
    ELSE 10 * DigitsValue(SubSeq(chars, 1, Len(chars) - 1))
         + IndexOf(DecimalDigits, chars[Len(chars)])

RECURSIVE WithoutLeadingZeros(_)
WithoutLeadingZeros(chars) ==
    IF chars # <<>> /\ Head(chars) = "0" THEN WithoutLeadingZeros(Tail(chars)) ELSE chars

\* The decimal digits of 2^-1075 (those of 5^1075, all 752 of them), half
\* of the least positive double: a decimal at or below it rounds to 0.
HalfMinDigits ==
    CharsOfWord("247032822920623272088284396434110686182529901307162382212792"
                \o "841250337753635104375932649918180817996189898282347722858865"
                \o "463328355177969898199387398005390939063150356595155702263922"
                \o "908583924491051844359318028499365361525003193704576782492193"
                \o "656236698636584807570015857692699037063119282795585513329278"
                \o "343384093519780155312465972635795746227664652728272200563740"
                \o "064854999770965994704540208281662262378573934507363390079677"
                \o "619305775067401763246736009689513405355374585166611342237666"
                \o "786041621596804619144672918403005300575308490487653917113865"
                \o "916462395249126236538818796362393732804238910186723484976682"
                \o "350898633885879256283027559956575244555072551893136908362547"
                \o "791869486679949683240497058210285131854513962138377228261454"
                \o "37693412532098591327667236328125")

\* The decimal fraction 0.a is greater than the decimal fraction 0.b: at
\* the first place where they differ a has the greater digit, or b is a
\* proper prefix of a and a digit of a after it is not 0.
DigitsAbove(a, b) ==
    LET shorter == IF Len(a) < Len(b) THEN Len(a) ELSE Len(b)
        differ == {i \in 1..shorter : a[i] # b[i]}
    IN  IF differ = {}
        THEN HasNonZero(SubSeq(a, shorter + 1, Len(a)))
        ELSE LET first == CHOOSE i \in differ : \A j \in differ : i <= j
             IN  IndexOf(DecimalDigits, a[first]) > IndexOf(DecimalDigits, b[first])

\* An unsigned decimal literal: digits, an optional fraction, an optional
\* exponent.  Positive when it has a digit that is not 0 and does not round
\* to 0.
PositiveDecimal(chars) ==
    LET e == FirstIn(chars, {"e", "E"})
        mantissa == IF e = 0 THEN chars ELSE SubSeq(chars, 1, e - 1)
        exponent == IF e = 0 THEN <<>> ELSE SubSeq(chars, e + 1, Len(chars))
        negative == exponent # <<>> /\ Head(exponent) = "-"
        expDigits == IF exponent # <<>> /\ Head(exponent) \in {"+", "-"}
                     THEN Tail(exponent) ELSE exponent
        dot == FirstIn(mantissa, {"."})
        whole == IF dot = 0 THEN mantissa ELSE SubSeq(mantissa, 1, dot - 1)
        fraction == IF dot = 0 THEN <<>> ELSE SubSeq(mantissa, dot + 1, Len(mantissa))
        digits == whole \o fraction
        wellFormed ==
            /\ digits # <<>>
            /\ AllIn(digits, DecimalDigits)
            /\ e # 0 => AllIn(expDigits, DecimalDigits)
        significant == WithoutLeadingZeros(expDigits)
        first == FirstIn(digits, {"1", "2", "3", "4", "5", "6", "7", "8", "9"})
        \* the power of ten of the first digit that is not 0
        magnitude == (IF negative THEN 0 - DigitsValue(significant)
                      ELSE DigitsValue(significant)) + Len(whole) - first
    IN  /\ wellFormed
        /\ first # 0
        /\ IF Len(significant) > 6 THEN ~negative
           ELSE \/ magnitude >= -323
                \/ /\ magnitude = -324
                   /\ DigitsAbove(SubSeq(digits, first, Len(digits)), HalfMinDigits)

\* 0x, 0o and 0b literals
PositiveRadix(chars) ==
    /\ Len(chars) > 2
    /\ chars[1] = "0"
    /\ LET rest == [i \in 1..Len(chars) - 2 |-> Lower(chars[i + 2])]
       IN  /\ HasNonZero(rest)
           /\ \/ chars[2] \in {"x", "X"} /\ AllIn(rest, DecimalDigits \o "abcdef")
              \/ chars[2] \in {"o", "O"} /\ AllIn(rest, "01234567")
              \/ chars[2] \in {"b", "B"} /\ AllIn(rest, "01")

PositiveNumeral(chars) ==
    LET text == TrimEnd(TrimStart(chars))
        unsigned == IF text # <<>> /\ Head(text) \in {"+", "-"} THEN Tail(text) ELSE text
    IN  /\ text # <<>>
        /\ Head(text) # "-"
        /\ \/ unsigned = CharsOfWord("Infinity")
           \/ PositiveDecimal(unsigned)
           \/ unsigned = text /\ PositiveRadix(text)

\* `confidence > 0`: the operand is converted to a number; an array or an
\* object by way of its String (its valueOf returns the object itself), so
\* the comparison throws where String does.
GreaterThanZero(v) ==
    CASE v.t = "number" -> JBool(v.n > 0)
      [] v.t = "boolean" -> JBool(v.b)
      [] IsString(v) -> JBool(PositiveNumeral(Chars(v)))
      [] v.t \in {"array", "object", "arraybuffer"} ->
            IF Throws(String(v)) THEN TypeError
            ELSE JBool(PositiveNumeral(Chars(String(v))))
      [] OTHER -> JBool(FALSE)

isFinalTranscript(payload) ==
    IF ~Truthy(payload) THEN JBool(FALSE)
    ELSE IF Truthy(Get(payload, "is_final")) \/ Truthy(Get(payload, "final"))
    THEN JBool(TRUE)
    ELSE IF Get(payload, "type") = S("final_transcript") THEN JBool(TRUE)
    ELSE LET confidence ==
                 OptGet(OptIndex(OptGet(Get(payload, "channel"), "alternatives"), 0),
                        "confidence")
         IN  IF Truthy(confidence) THEN GreaterThanZero(confidence) ELSE JBool(FALSE)

\* extractResponses: the sub-objects of an agent-response, as a sequence.
extractResponses(payload) ==
    IF ~Truthy(payload) THEN <<>>
    ELSE IF IsArray(Get(payload, "responses")) THEN Get(payload, "responses").items
    ELSE IF IsArray(OptGet(Get(payload, "response"), "outputs"))
    THEN OptGet(Get(payload, "response"), "outputs").items
    ELSE IF IsArray(Get(payload, "output")) THEN Get(payload, "output").items
    ELSE IF IsArray(Get(payload, "outputs")) THEN Get(payload, "outputs").items
    ELSE IF Truthy(Get(payload, "response")) THEN <<Get(payload, "response")>>
    ELSE <<>>

ContentOrText(item) == Or(OptGet(item, "content"), OptGet(item, "text"))

\* `response.messages.map((item) => item?.content || item?.text)`
Contents(items) == [i \in 1..Len(items) |-> ContentOrText(items[i])]

textFromResponse(res) ==
    IF ~Truthy(res) THEN JNull
    ELSE IF IsString(Get(res, "text")) THEN Get(res, "text")
    ELSE IF IsString(Get(res, "content")) THEN Get(res, "content")
    ELSE IF IsString(Get(res, "value")) THEN Get(res, "value")
    ELSE IF IsArray(Get(res, "messages"))
    THEN JoinTruthy(Contents(Get(res, "messages").items))
    ELSE IF IsArray(Get(res, "texts"))
    THEN JoinTruthy(Get(res, "texts").items)
    ELSE JNull

\* The values of the digits of a numeral, as a sequence.
DigitValues(chars) ==
    <<>> \o [i \in 1..Len(chars) |-> IndexOf("0123456789abcdef", Lower(chars[i]))]

IsZero(digits) == \A i \in 1..Len(digits) : digits[i] = 0

\* The decimal digits of floor(n / 2), from those of n.
HalfDigits(digits) ==
    <<>> \o [i \in 1..Len(digits) |->
        (digits[i] + (IF i > 1 /\ digits[i - 1] % 2 = 1 THEN 10 ELSE 0)) \div 2]

\* The decimal digits of the fraction part of 2 * 0.d, from those of 0.d.
DoubleDigits(digits) ==
    <<>> \o [i \in 1..Len(digits) |->
        (2 * digits[i] + (IF i < Len(digits) /\ digits[i + 1] >= 5 THEN 1 ELSE 0)) % 10]

\* The binary digits of an integer given by its decimal digits, the most
\* significant first, none for 0.
RECURSIVE BinaryOf(_)
BinaryOf(digits) ==
    IF IsZero(digits) THEN <<>>
    ELSE Append(BinaryOf(HalfDigits(digits)), digits[Len(digits)] % 2)

\* The first n binary places of the decimal fraction 0.d are all 1.
RECURSIVE LeadingOnes(_, _)
LeadingOnes(digits, n) ==
    \/ n = 0
    \/ /\ digits # <<>>
       /\ digits[1] >= 5
       /\ LeadingOnes(DoubleDigits(digits), n - 1)

RECURSIVE BitsValue(_)
BitsValue(bits) ==
    IF bits = <<>> THEN 0
    ELSE 2 * BitsValue(SubSeq(bits, 1, Len(bits) - 1)) + bits[Len(bits)]

\* ToUint8 of the double nearest to a number that is not negative: the
\* number is rounded to 53 significant binary digits, ties to the even one,
\* then truncated and taken modulo 256.  The number is given by the binary
\* digits of its integer part, without leading zeros, and the decimal
\* digits of its fraction.  A double of at least 2^60 is a multiple of 256.
RoundedByte(bits, fraction) ==
    LET length == Len(bits)
        low == BitsValue(SubSeq(bits, IF length > 8 THEN length - 7 ELSE 1, length))
    IN  IF length > 60 THEN 0
        ELSE IF length >= 54
        THEN LET dropped == length - 53
                 sticky == \/ \E i \in 55..length : bits[i] = 1
                           \/ ~IsZero(fraction)
                 up == bits[54] = 1 /\ (sticky \/ bits[53] = 1)
             IN  ((BitsValue(SubSeq(bits, 46, 53)) + (IF up THEN 1 ELSE 0))
                     % (2 ^ (8 - dropped))) * (2 ^ dropped)
        ELSE IF length = 53
        THEN LET sticky == ~IsZero(DoubleDigits(fraction))
                 up == /\ fraction # <<>>
                       /\ fraction[1] >= 5
                       /\ (sticky \/ bits[53] = 1)
             IN  (low + (IF up THEN 1 ELSE 0)) % 256
        ELSE (low + (IF LeadingOnes(fraction, 54 - length) THEN 1 ELSE 0)) % 256

\* ToUint8 of the number an unsigned decimal literal denotes; 0 for a text
\* that is no literal (NaN).
DecimalResidue(chars) ==
    LET e == FirstIn(chars, {"e", "E"})
        mantissa == IF e = 0 THEN chars ELSE SubSeq(chars, 1, e - 1)
        exponent == IF e = 0 THEN <<>> ELSE SubSeq(chars, e + 1, Len(chars))
        negative == exponent # <<>> /\ Head(exponent) = "-"
        expDigits == IF exponent # <<>> /\ Head(exponent) \in {"+", "-"}
                     THEN Tail(exponent) ELSE exponent
        dot == FirstIn(mantissa, {"."})
        whole == IF dot = 0 THEN mantissa ELSE SubSeq(mantissa, 1, dot - 1)
        fraction == IF dot = 0 THEN <<>> ELSE SubSeq(mantissa, dot + 1, Len(mantissa))
        digits == whole \o fraction
        wellFormed ==
            /\ digits # <<>>
            /\ AllIn(digits, DecimalDigits)
            /\ e # 0 => AllIn(expDigits, DecimalDigits)
        significant == WithoutLeadingZeros(expDigits)
        \* the number of places the decimal point moves to the right
        shift == (IF negative THEN 0 - DigitsValue(significant)
                  ELSE DigitsValue(significant)) - Len(fraction)
        \* the digits before and after the decimal point of the number
        before == IF shift >= 0
                  THEN digits \o [i \in 1..(IF shift > 20 THEN 20 ELSE shift) |-> "0"]
                  ELSE SubSeq(digits, 1, Len(digits) + shift)
        after == IF shift >= 0 THEN <<>>
                 ELSE SubSeq(digits, Len(digits) + shift + 1, Len(digits))
    IN  IF ~wellFormed \/ Len(significant) > 6 THEN 0
        ELSE IF Len(digits) + shift < 0 \/ Len(WithoutLeadingZeros(before)) > 19 THEN 0
        ELSE RoundedByte(BinaryOf(DigitValues(WithoutLeadingZeros(before))),
                         DigitValues(after))

\* The binary digits of the digits of a radix 2^width, without leading
\* zeros.
BinaryOfRadix(digits, width) ==
    LET bits == [j \in 1..(Len(digits) * width) |->
                    (digits[(j - 1) \div width + 1]
                        \div (2 ^ (width - 1 - ((j - 1) % width)))) % 2]
        ones == {j \in 1..Len(bits) : bits[j] = 1}
    IN  IF ones = {} THEN <<>>
        ELSE SubSeq(bits, CHOOSE j \in ones : \A k \in ones : j <= k, Len(bits))

\* 0x, 0o and 0b literals: ToUint8 of the number, 0 for a text that is no
\* such literal.
RadixResidue(chars) ==
    LET rest == SubSeq(chars, 3, Len(chars))
        digits == DigitValues(rest)
        width == IF chars[2] \in {"x", "X"} THEN 4
                 ELSE IF chars[2] \in {"o", "O"} THEN 3
                 ELSE IF chars[2] \in {"b", "B"} THEN 1
                 ELSE 0
    IN  IF Len(chars) < 3 \/ chars[1] # "0" \/ width = 0 THEN 0
        ELSE IF \E i \in 1..Len(digits) : digits[i] < 0 \/ digits[i] >= 2 ^ width THEN 0
        ELSE RoundedByte(BinaryOfRadix(digits, width), <<>>)

\* ToUint8 of the number a string converts to (StringToNumber): the double
\* nearest to the numeral, truncated and taken modulo 256; NaN and the
\* infinities give 0.
Uint8OfNumeral(chars) ==
    LET text == TrimEnd(TrimStart(chars))
        signed == text # <<>> /\ Head(text) \in {"+", "-"}
        unsigned == IF signed THEN Tail(text) ELSE text
        residue == IF ~signed /\ Len(text) > 1
                      /\ text[2] \in {"x", "X", "o", "O", "b", "B"}
                   THEN RadixResidue(text)
                   ELSE DecimalResidue(unsigned)
    IN  IF signed /\ Head(text) = "-" THEN (256 - residue) % 256 ELSE residue

\* ToUint8(ToNumber(v)) for an item of the array; -1 when the conversion
\* throws.
ToUint8(v) ==
    CASE v.t = "number" -> v.n % 256
      [] v.t = "boolean" -> IF v.b THEN 1 ELSE 0
      [] IsString(v) -> Uint8OfNumeral(Chars(v))
      [] v.t \in {"array", "object"} ->
            IF Throws(String(v)) THEN -1 ELSE Uint8OfNumeral(Chars(String(v)))
      [] OTHER -> 0

\* `new Uint8Array(items).buffer`: every item is converted to a number and
\* then to a byte; the conversion of an item may throw.
BytesOf(items) ==
    LET bytes == [i \in 1..Len(items) |-> ToUint8(items[i])]
    IN  IF \E i \in 1..Len(items) : bytes[i] < 0 THEN TypeError
        ELSE ArrayBuffer(bytes)

audioFromResponse(res) ==
    IF ~Truthy(res) THEN JNull
    ELSE LET audio ==
                 Coalesce(Coalesce(Coalesce(Coalesce(
                     Get(res, "audio"),
                     Get(res, "data")),
                     OptGet(Get(res, "payload"), "audio")),
                     OptGet(Get(res, "payload"), "data")),
                     Get(res, "value"))
         IN  IF ~Truthy(audio) THEN JNull
             ELSE IF audio.t = "arraybuffer" THEN audio
             ELSE IF IsString(audio) THEN decodeBase64(audio)
             ELSE IF IsArray(audio) THEN BytesOf(audio.items)
             ELSE IF Get(audio, "type") = JStr("buffer", {1})
                     /\ IsArray(Get(audio, "data"))
             THEN BytesOf(Get(audio, "data").items)
             ELSE JNull

CompletedStatuses == {S("completed"), S("complete"), S("finished"), S("done")}

responseIsComplete(res) ==
    IF ~Truthy(res) THEN JBool(FALSE)
    ELSE IF Get(res, "type") = S("completed")
            \/ Get(res, "type") = S("done") THEN JBool(TRUE)
    ELSE IF Truthy(Get(res, "status"))
    THEN IF Throws(String(Get(res, "status"))) THEN TypeError
         ELSE JBool(toLowerCase(String(Get(res, "status"))) \in CompletedStatuses)
    ELSE IF Truthy(Get(res, "completion_reason")) THEN JBool(TRUE)
    ELSE IF Get(res, "done") = JBool(TRUE) THEN JBool(TRUE)
    ELSE JBool(FALSE)

(***************************************************************************)
(* The conversation aggregator and the playback schedule (part_002 lines   *)
(* 221-315).  The callbacks run to completion inside one event handler, so *)
(* each is an operator from the handler's state `c` to its next state.     *)
(* The functional updates of chatMessages are applied in the order they    *)
(* are queued.  `c.emitted` lists what the handler has applied so far and  *)
(* `c.threw` tells that an exception is propagating.                       *)
(***************************************************************************)
Here ==
    [connection |-> connection,
     currentSpeaker |-> currentSpeaker,
     chatMessages |-> chatMessages,
     incomingMessageRef |-> incomingMessageRef,
     scheduledAudioSourcesRef |-> scheduledAudioSourcesRef,
     scheduledStartRef |-> scheduledStartRef,
     audioSources |-> audioSources,
     emitted |-> <<>>,
     threw |-> FALSE]

Emit(c, event) == [c EXCEPT !.emitted = Append(@, event)]

\* An exception leaves the handler: what was applied so far stays applied.
Throw(c) == [c EXCEPT !.threw = TRUE]

\* `${Date.now()}-${Math.random()...}`: an id no earlier message has.
NewId(c) == Len(c.chatMessages) + 1

\* Variant: the messages are matched by role.
ReplaceByRole(messages, message) ==
    [i \in 1..Len(messages) |->
        IF messages[i].role = message.role THEN message ELSE messages[i]]

\* `prev.map((item) => (item.id === message.id ? message : item))`
ReplaceById(messages, message) ==
    [i \in 1..Len(messages) |->
        IF messages[i].id = message.id THEN message ELSE messages[i]]

ensureIncomingMessage(c) ==
    IF c.incomingMessageRef # JNull THEN c
    ELSE LET message == [id |-> NewId(c), role |-> "model",
                         content |-> Text(<<>>), audio |-> JUndefined,
                         voice |-> voice]
         IN  [c EXCEPT !.incomingMessageRef = message,
                       !.chatMessages = Append(@, message)]

updateIncomingMessage(c, updates) ==
    LET c1 == IF c.incomingMessageRef = JNull THEN ensureIncomingMessage(c) ELSE c
        updated == Merge(c1.incomingMessageRef, updates)
    IN  [c1 EXCEPT !.incomingMessageRef = updated,
                   !.chatMessages = ReplaceById(@, updated)]

\* Variant: the reference to the open message is kept.
finalizeKeepingRef(c) ==
    IF c.incomingMessageRef = JNull THEN c
    ELSE Emit([c EXCEPT !.chatMessages = ReplaceById(@, c.incomingMessageRef),
                        !.currentSpeaker = S("user-waiting")],
              "finalize")

finalizeIncomingMessage(c) ==
    IF c.incomingMessageRef = JNull THEN c
    ELSE Emit([c EXCEPT !.chatMessages = ReplaceById(@, c.incomingMessageRef),
                        !.incomingMessageRef = JNull,
                        !.currentSpeaker = S("user-waiting")],
              "finalize")

\* Variant: the sources are forgotten without being stopped.
clearWithoutStopping(c) ==
    [c EXCEPT !.scheduledAudioSourcesRef = <<>>,
              !.scheduledStartRef = 0]

\* clearScheduledAudio: stop() on every scheduled source (an exception of
\* stop() is ignored), then an empty list and a cursor of 0.
clearScheduledAudio(c) ==
    [c EXCEPT !.audioSources =
                  [i \in 1..Len(@) |->
                      IF \E k \in 1..Len(c.scheduledAudioSourcesRef) :
                             c.scheduledAudioSourcesRef[k] = i
                      THEN [@[i] EXCEPT !.stopped = TRUE] ELSE @[i]],
              !.scheduledAudioSourcesRef = <<>>,
              !.scheduledStartRef = 0]

\* Time is counted in sample periods of the output rate, so that the
\* duration of a buffer of n samples at OUTPUT_SAMPLE_RATE is n.
Duration(samples) == samples

\* Variant: the cursor is not clamped to the current time.
playAudioUnclamped(c, audioData) ==
    IF audioContextRef = JNull THEN c
    ELSE IF Len(audioData.bytes) % 2 # 0 THEN [c EXCEPT !.threw = TRUE]
    ELSE IF Len(audioData.bytes) \div 2 = 0 THEN c
    ELSE LET startTime == c.scheduledStartRef
             source == [context |-> audioContextRef.id, start |-> startTime,
                        scheduledAt |-> audioContextRef.currentTime,
                        duration |-> Duration(Len(audioData.bytes) \div 2),
                        stopped |-> FALSE]
         IN  Emit([c EXCEPT !.scheduledStartRef = startTime + source.duration,
                            !.audioSources = Append(@, source),
                            !.scheduledAudioSourcesRef =
                                Append(@, Len(c.audioSources) + 1)],
                  "play")

\* playAudio: `new Int16Array(audioData)` throws a RangeError when the byte
\* length is odd.
playAudio(c, audioData) ==
    IF audioContextRef = JNull THEN c
    ELSE IF Len(audioData.bytes) % 2 # 0 THEN [c EXCEPT !.threw = TRUE]
    ELSE IF Len(audioData.bytes) \div 2 = 0 THEN c
    ELSE LET currentTime == audioContextRef.currentTime
             startTime == IF c.scheduledStartRef < currentTime
                          THEN currentTime ELSE c.scheduledStartRef
             source == [context |-> audioContextRef.id, start |-> startTime,
                        scheduledAt |-> currentTime,
                        duration |-> Duration(Len(audioData.bytes) \div 2),
                        stopped |-> FALSE]
         IN  Emit([c EXCEPT !.scheduledStartRef = startTime + source.duration,
                            !.audioSources = Append(@, source),
                            !.scheduledAudioSourcesRef =
                                Append(@, Len(c.audioSources) + 1)],
                  "play")

concatArrayBuffers(buffer1, buffer2) == ArrayBuffer(buffer1.bytes \o buffer2.bytes)

(***************************************************************************)
(* The message handlers (part_002 lines 357-520).                          *)
(***************************************************************************)
\* handleTranscriptMessage without the test of isFinal.
handleTranscriptMessageOnAnyUserTranscript(c, payload) ==
    LET text == extractTranscriptText(payload)
        resolved == parseSpeaker(payload)
        speaker == Coalesce(resolved, S("user"))
        isFinal == isFinalTranscript(payload)
    IN  IF Throws(text) THEN Throw(c)
        ELSE IF ~Truthy(text) THEN c
        ELSE IF Throws(resolved) \/ Throws(isFinal) THEN Throw(c)
        ELSE IF speaker = S("user")
        THEN LET c1 == clearScheduledAudio([c EXCEPT !.currentSpeaker = S("user")])
                 c2 == [c1 EXCEPT !.incomingMessageRef = JNull]
             IN  Emit([c2 EXCEPT !.chatMessages =
                          Append(@, [id |-> NewId(c2), role |-> "user",
                                     content |-> text, audio |-> JUndefined,
                                     voice |-> JUndefined])],
                      "user")
        ELSE IF speaker = S("model")
        THEN LET c1 == ensureIncomingMessage(c)
                 existing == c1.incomingMessageRef.content
                 combined == IF Truthy(existing)
                             THEN trim(replaceWhitespaceRuns(SpaceJoined(existing, text)))
                             ELSE text
             IN  IF Throws(combined) THEN Throw(c1)
                 ELSE Emit(updateIncomingMessage(c1, [content |-> combined]), "text")
        ELSE c

handleTranscriptMessage(c, payload) ==
    LET text == extractTranscriptText(payload)
        resolved == parseSpeaker(payload)
        speaker == Coalesce(resolved, S("user"))
        isFinal == isFinalTranscript(payload)
    IN  IF Throws(text) THEN Throw(c)
        ELSE IF ~Truthy(text) THEN c
        ELSE IF Throws(resolved) \/ Throws(isFinal) THEN Throw(c)
        ELSE IF speaker = S("user") /\ IsTrue(isFinal)
        THEN LET c1 == clearScheduledAudio([c EXCEPT !.currentSpeaker = S("user")])
                 c2 == [c1 EXCEPT !.incomingMessageRef = JNull]
             IN  Emit([c2 EXCEPT !.chatMessages =
                          Append(@, [id |-> NewId(c2), role |-> "user",
                                     content |-> text, audio |-> JUndefined,
                                     voice |-> JUndefined])],
                      "user")
        ELSE IF speaker = S("model")
        THEN LET c1 == ensureIncomingMessage(c)
                 existing == c1.incomingMessageRef.content
                 combined == IF Truthy(existing)
                             THEN trim(replaceWhitespaceRuns(SpaceJoined(existing, text)))
                             ELSE text
             IN  IF Throws(combined) THEN Throw(c1)
                 ELSE Emit(updateIncomingMessage(c1, [content |-> combined]), "text")
        ELSE c

\* String.prototype.includes
includes(v, searchString) ==
    LET chars == Chars(v)
        sought == Chars(searchString)
    IN  \E i \in 0..(Len(chars) - Len(sought)) :
            SubSeq(chars, i + 1, i + Len(sought)) = sought

\* `responseType.includes("text") || responseType === "message"`
IsTextType(responseType) ==
    includes(responseType, S("text")) \/ Chars(responseType) = Chars(S("message"))

\* The text step of one sub-object (lines 403-413).
ApplyText(c, res) ==
    LET responseType ==
            toLowerCase(String(Coalesce(Coalesce(Get(res, "type"), Get(res, "kind")),
                                        S(""))))
        text == textFromResponse(res)
    IN  IF Throws(responseType) THEN Throw(c)
        ELSE IF ~IsTextType(responseType) THEN c
        ELSE IF Throws(text) THEN Throw(c)
        ELSE IF Truthy(text)
        THEN LET c1 == ensureIncomingMessage([c EXCEPT !.currentSpeaker = S("model")])
                 existing == c1.incomingMessageRef.content
                 content == IF Truthy(existing)
                            THEN trim(SpaceJoined(existing, text))
                            ELSE text
             IN  IF Throws(content) THEN Throw(c1)
                 ELSE Emit(updateIncomingMessage(c1, [content |-> content]), "text")
        ELSE c

\* An audio delta: appended to the open message, then played (lines 416-427
\* and processAudio, lines 488-499).
processAudio(c, audioBuffer) ==
    LET c1 == ensureIncomingMessage([c EXCEPT !.currentSpeaker = S("model")])
        incoming == c1.incomingMessageRef
        combinedAudio == IF Truthy(incoming.audio)
                         THEN concatArrayBuffers(incoming.audio, audioBuffer)
                         ELSE audioBuffer
    IN  playAudio(Emit(updateIncomingMessage(c1, [audio |-> combinedAudio]),
                       "audio"),
                  audioBuffer)

\* The audio step of one sub-object (lines 415-427), unless the text step
\* threw.
ApplyAudio(c, audioBuffer) ==
    IF c.threw \/ audioBuffer = JNull THEN c
    ELSE IF Throws(audioBuffer) THEN Throw(c)
    ELSE processAudio(c, audioBuffer)

\* `if (responseIsComplete(...)) finalizeIncomingMessage()` (lines 429-431
\* and 434-436), unless an earlier step threw.
ApplyCompletion(c, complete) ==
    IF c.threw THEN c
    ELSE IF Throws(complete) THEN Throw(c)
    ELSE IF IsTrue(complete) THEN finalizeIncomingMessage(c)
    ELSE c

\* One iteration of the forEach (lines 396-432).
ApplyResponse(c, res) ==
    IF ~Truthy(res) THEN c
    ELSE ApplyCompletion(ApplyAudio(ApplyText(c, res), audioFromResponse(res)),
                         responseIsComplete(res))

RECURSIVE ApplyResponses(_, _)
ApplyResponses(c, responses) ==
    IF responses = <<>> \/ c.threw THEN c
    ELSE ApplyResponses(ApplyResponse(c, Head(responses)), Tail(responses))

\* Variant: the completion of the outer payload is not looked at.
handleAgentResponseInnerOnly(c, payload) ==
    LET responses == extractResponses(payload)
    IN  IF responses = <<>> THEN c
        ELSE ApplyResponses(c, responses)

handleAgentResponse(c, payload) ==
    LET responses == extractResponses(payload)
    IN  IF responses = <<>> THEN c
        ELSE ApplyCompletion(ApplyResponses(c, responses), responseIsComplete(payload))

WelcomeTypes == {S("welcome"), S("session.created"), S("session-updated")}

\* The switch of handleUpstreamMessage on a parsed payload whose type (or the
\* "" that replaces a missing type) is a string.
Dispatch(c, payload, type) ==
    CASE type \in WelcomeTypes -> Emit([c EXCEPT !.connection = TRUE], "welcome")
      [] type = S("transcript") -> handleTranscriptMessage(c, payload)
      [] type = S("agent-response") -> handleAgentResponse(c, payload)
      [] type = S("error") -> c
      [] type = S("warning") -> c
      [] type \in {S("close"), S("close_stream")} -> finalizeIncomingMessage(c)
      [] OTHER ->
            IF IsNullish(payload) THEN [c EXCEPT !.threw = TRUE]
            ELSE LET data == Get(payload, "data")
                 IN  IF OptGet(data, "type") = S("transcript")
                     THEN handleTranscriptMessage(c, data)
                     ELSE IF OptGet(data, "type") = S("agent-response")
                     THEN handleAgentResponse(c, data)
                     ELSE c

\* Variant: a text that does not parse ends the turn.
handleUpstreamMessageFinalizingOnError(c, frame) ==
    IF frame.kind = "string"
    THEN LET parsed == JSONparse(frame.text)
             type == Coalesce(OptGet(parsed.value, "type"), S(""))
         IN  IF parsed.threw THEN finalizeIncomingMessage(c)
             ELSE IF type.t # "string" THEN c
             ELSE [Dispatch(c, parsed.value, toLowerCase(type)) EXCEPT !.threw = FALSE]
    ELSE processAudio(c, ArrayBuffer(frame.bytes))

\* handleUpstreamMessage: a string frame is parsed and dispatched inside a
\* try block whose catch only logs; an ArrayBuffer frame is an audio delta.
handleUpstreamMessage(c, frame) ==
    IF frame.kind = "string"
    THEN LET parsed == JSONparse(frame.text)
             type == Coalesce(OptGet(parsed.value, "type"), S(""))
         IN  IF parsed.threw \/ type.t # "string" THEN c
             ELSE [Dispatch(c, parsed.value, toLowerCase(type)) EXCEPT !.threw = FALSE]
    ELSE processAudio(c, ArrayBuffer(frame.bytes))

handleSocketClose(c) ==
    clearScheduledAudio([c EXCEPT !.connection = FALSE,
                                  !.currentSpeaker = JNull,
                                  !.incomingMessageRef = JNull])

(***************************************************************************)
(* Frames the agent endpoint delivers to the browser client.               *)
(***************************************************************************)
Json(v) == StringFrame(SpacedText(v))

Hello == Text(<<"hello">>)

WelcomeFrame == Json(JObj([type |-> JStr("welcome", {1})]))

\* {"type":"transcript","transcript":"hello","speaker":"user","is_final":true}
UserFinalFrame ==
    Json(JObj([type |-> S("transcript"), transcript |-> Hello,
               speaker |-> S("user"), is_final |-> JBool(TRUE)]))

\* A final user transcript of silence: the transcript is the empty string.
UserFinalEmptyFrame ==
    Json(JObj([type |-> S("transcript"), transcript |-> Text(<<>>),
               speaker |-> S("user"), is_final |-> JBool(TRUE)]))

UserPartialFrame ==
    Json(JObj([type |-> S("transcript"), transcript |-> Text(<<"hel">>),
               speaker |-> JStr("user", {1}), is_final |-> JBool(FALSE)]))

\* A final transcript whose speaker token is no alias of either role.
OperatorFinalFrame ==
    Json(JObj([type |-> JStr("transcript", {1}),
               text |-> Text(<<"hello", " ", "there">>),
               role |-> S("operator"), final |-> JBool(TRUE)]))

ModelTranscriptFrame ==
    Json(JObj([type |-> S("transcript"),
               content |-> Text(<<" ", "and", " ", " ", "more", " ">>),
               source |-> JStr("assistant", {1})]))

TextResponse(text) == JObj([type |-> S("text"), text |-> text])

\* {"type":"agent-response","response":{"type":"text","text":"Hi"}}
TextFrame(text) ==
    Json(JObj([type |-> S("agent-response"), response |-> TextResponse(text)]))

\* The same with "status":"completed" on the outer payload.
CompletedTextFrame(text) ==
    Json(JObj([type |-> S("agent-response"), response |-> TextResponse(text),
               status |-> S("completed")]))

\* Two sub-objects, the first of which signals completion.
TwoPartFrame ==
    Json(JObj([type |-> S("agent-response"),
               responses |-> JArr(<<
                   JObj([type |-> S("text"), text |-> Text(<<"one">>),
                         status |-> S("done")]),
                   JObj([type |-> S("text"), text |-> Text(<<"two">>)]) >>)]))

AudioResponseFrame ==
    Json(JObj([type |-> S("agent-response"),
               response |-> JObj([type |-> S("audio"),
                                  audio |-> Base64(<<1, 2, 3, 4>>)]),
               done |-> JBool(TRUE)]))

\* Audio of an odd number of bytes in a payload that signals completion.
OddAudioCompletedFrame ==
    Json(JObj([type |-> S("agent-response"),
               response |-> JObj([kind |-> S("audio"),
                                  data |-> JArr(<<JNum(1), JNum(2), JNum(3)>>)]),
               status |-> JStr("finished", {1})]))

CloseFrame == Json(JObj([type |-> S("close")]))
CloseStreamMessageFrame == Json(JObj([type |-> JStr("close_stream", {1, 7})]))
ErrorFrame == Json(JObj([type |-> S("error"), message |-> Text(<<"boom">>)]))

\* A transcript nested in the data field of an unmatched type.
NestedTranscriptFrame ==
    Json(JObj([type |-> S("event"),
               data |-> JObj([type |-> S("transcript"), transcript |-> Hello,
                              participant |-> S("caller"),
                              is_final |-> JBool(TRUE)])]))

AudioDeltaFrame == BinaryFrame(<<5, 6>>)
OddAudioDeltaFrame == BinaryFrame(<<9>>)

Hi == Text(<<"Hi">>)
There == Text(<<"there">>)

AgentFrames ==
    { WelcomeFrame, UserFinalFrame, UserFinalEmptyFrame, UserPartialFrame,
      OperatorFinalFrame, ModelTranscriptFrame,
      TextFrame(Hi), CompletedTextFrame(There), TwoPartFrame,
      TextFrame(Text(<<" ", "you">>)),
      CompletedTextFrame(Text(<<>>)), CompletedTextFrame(Text(<<"you", " ">>)),
      AudioResponseFrame, OddAudioCompletedFrame,
      CloseFrame, CloseStreamMessageFrame, ErrorFrame, NestedTranscriptFrame,
      StringFrame(InvalidText), Json(JNull), Json(JObj([type |-> JNum(5)])),
      AudioDeltaFrame, OddAudioDeltaFrame }

(***************************************************************************)
(* The browser client: initial state and event handlers (part_002 lines    *)
(* 196-209 and 522-646).                                                   *)
(***************************************************************************)
MaxUpstreamFrames == 3
MaxTime == 1
MaxContexts == 2
MaxCaptured == 2

ClientInit ==
    /\ connection = FALSE
    /\ voice = DEFAULT_VOICE
    /\ currentSpeaker = JNull
    /\ microphoneOpen = FALSE
    /\ chatMessages = <<>>
    /\ incomingMessageRef = JNull
    /\ scheduledAudioSourcesRef = <<>>
    /\ scheduledStartRef = 0
    /\ audioContextRef = JNull
    /\ contexts = 0
    /\ audioSources = <<>>
    /\ socket = READY_STATES.CONNECTING
    /\ delivered = <<>>
    /\ emitted = <<>>
    /\ microphoneRef = JNull
    /\ processorRef = JNull
    /\ streamRef = JNull
    /\ captures = <<>>
    /\ pending = {}
    /\ captured = 0

\* The handler's state becomes the state of the component.
Commit(c) ==
    /\ connection' = c.connection
    /\ currentSpeaker' = c.currentSpeaker
    /\ chatMessages' = c.chatMessages
    /\ incomingMessageRef' = c.incomingMessageRef
    /\ scheduledAudioSourcesRef' = c.scheduledAudioSourcesRef
    /\ scheduledStartRef' = c.scheduledStartRef
    /\ audioSources' = c.audioSources
    /\ emitted' = c.emitted

\* onOpen (lines 542-549)
SocketOpen ==
    /\ socket = READY_STATES.CONNECTING
    /\ socket' = READY_STATES.OPEN
    /\ connection' = TRUE
    /\ UNCHANGED <<bridgeVars, captureVars, voice, currentSpeaker, microphoneOpen, chatMessages,
                   incomingMessageRef, scheduledAudioSourcesRef, scheduledStartRef,
                   audioContextRef, contexts, audioSources, delivered, emitted>>

\* onMessage: handleUpstreamMessage
OnMessage(frame) ==
    /\ socket = READY_STATES.OPEN
    /\ Len(delivered) < MaxUpstreamFrames
    /\ delivered' = Append(delivered, frame)
    /\ Commit(handleUpstreamMessage(Here, frame))
    /\ UNCHANGED <<bridgeVars, captureVars, voice, microphoneOpen, audioContextRef, contexts,
                   socket>>

\* onClose: handleSocketClose.  react-use-websocket then reconnects
\* (shouldReconnect returns true).
SocketClose ==
    /\ socket \in {READY_STATES.CONNECTING, READY_STATES.OPEN}
    /\ socket' = READY_STATES.CLOSED
    /\ microphoneOpen' = FALSE
    /\ Commit(handleSocketClose(Here))
    /\ UNCHANGED <<bridgeVars, captureVars, voice, audioContextRef, contexts, delivered>>

Reconnect ==
    /\ socket = READY_STATES.CLOSED
    /\ socket' = READY_STATES.CONNECTING
    /\ UNCHANGED <<bridgeVars, captureVars, connection, voice, currentSpeaker, microphoneOpen,
                   chatMessages, incomingMessageRef, scheduledAudioSourcesRef,
                   scheduledStartRef, audioContextRef, contexts, audioSources,
                   delivered, emitted>>

\* A new AudioContext: open, its clock at 0, no capture chain on it and no
\* replay playing on it.  The context with id n is captures[n].
NewContext ==
    [contextOpen |-> TRUE, tracksLive |-> FALSE, microphoneConnected |-> FALSE,
     processorConnected |-> FALSE, onaudioprocess |-> JNull, replaying |-> FALSE]

\* The catch branch of startStreaming (lines 602-609), on the contexts
\* `caps`: the context audioContextRef holds, whichever call made it, is
\* closed and forgotten.
CatchStreaming(caps) ==
    /\ microphoneOpen' = FALSE
    /\ captures' = IF audioContextRef = JNull THEN caps
                   ELSE [caps EXCEPT ![audioContextRef.id].contextOpen = FALSE]
    /\ audioContextRef' = JNull

\* startStreaming up to its first await (lines 555-571).  Without
\* navigator.mediaDevices.getUserMedia the call only logs and returns.
\* `new AudioContext(...)` is inside the try: when the constructor throws
\* (the browser refuses the sample rate, or has no more audio hardware
\* contexts), the catch branch runs in the same call, on the context an
\* earlier call stored.  Otherwise the AudioContext is created and stored,
\* and the call is suspended at `await audioContext.resume()` or
\* `await getUserMedia(...)`.  The call keeps its own audioContext and the
\* readyState of the render that made the callback, of which onaudioprocess
\* reads only whether it is OPEN.
startStreaming ==
    \E outcome \in {"unsupported", "constructorThrows", "suspended"} :
        CASE outcome = "unsupported" -> UNCHANGED vars
          [] outcome = "constructorThrows" ->
              /\ CatchStreaming(captures)
              /\ UNCHANGED <<bridgeVars, connection, voice, currentSpeaker,
                             chatMessages, incomingMessageRef, scheduledAudioSourcesRef,
                             scheduledStartRef, contexts, audioSources, socket,
                             delivered, emitted, microphoneRef, processorRef,
                             streamRef, captured, pending>>
          [] outcome = "suspended" ->
              /\ contexts < MaxContexts
              /\ contexts' = contexts + 1
              /\ audioContextRef' = [t |-> "AudioContext", id |-> contexts + 1, currentTime |-> 0]
              /\ captures' = Append(captures, NewContext)
              /\ pending' = pending \cup {[audioContext |-> contexts + 1,
                                           readyStateIsOpen |-> socket = READY_STATES.OPEN]}
              /\ UNCHANGED <<bridgeVars, connection, voice, currentSpeaker, microphoneOpen,
                             chatMessages, incomingMessageRef, scheduledAudioSourcesRef,
                             scheduledStartRef, audioSources, socket, delivered, emitted,
                             microphoneRef, processorRef, streamRef, captured>>

\* The promise of resume() or of getUserMedia is rejected.
startStreamingRejected(call) ==
    /\ call \in pending
    /\ pending' = pending \ {call}
    /\ CatchStreaming(captures)
    /\ UNCHANGED <<bridgeVars, connection, voice, currentSpeaker, chatMessages,
                   incomingMessageRef, scheduledAudioSourcesRef, scheduledStartRef,
                   contexts, audioSources, socket, delivered, emitted,
                   microphoneRef, processorRef, streamRef, captured>>

\* getUserMedia resolves and startStreaming runs to its end (lines 571-601):
\* the stream, its source node and the processor are made on the
\* audioContext of the call and connected.  createMediaStreamSource is
\* inside the try and may throw whatever the state of the context (closed
\* meanwhile, or open with a sample rate the stream does not have); when it
\* throws, the stream is already stored and its tracks are live.
startStreamingResumed(call) ==
    /\ call \in pending
    /\ pending' = pending \ {call}
    /\ streamRef' = call.audioContext
    /\ \E throws \in BOOLEAN :
          IF throws
          THEN /\ CatchStreaming([captures EXCEPT ![call.audioContext].tracksLive = TRUE])
               /\ UNCHANGED <<microphoneRef, processorRef, currentSpeaker>>
          ELSE /\ microphoneRef' = call.audioContext
               /\ processorRef' = call.audioContext
               /\ captures' =
                      [captures EXCEPT ![call.audioContext] =
                          [@ EXCEPT !.tracksLive = TRUE,
                                    !.microphoneConnected = TRUE,
                                    !.processorConnected = TRUE,
                                    !.onaudioprocess =
                                        [readyStateIsOpen |-> call.readyStateIsOpen]]]
               /\ microphoneOpen' = TRUE
               /\ currentSpeaker' = S("user")
               /\ UNCHANGED audioContextRef
    /\ UNCHANGED <<bridgeVars, connection, voice, chatMessages, incomingMessageRef,
                   scheduledAudioSourcesRef, scheduledStartRef, contexts,
                   audioSources, socket, delivered, emitted, captured>>

\* The capture chains after stopStreaming: the processor of processorRef is
\* disconnected and loses its handler, the source of microphoneRef is
\* disconnected, the context of audioContextRef is closed, the tracks of
\* streamRef are stopped.
Stopped(n) ==
    LET c1 == IF processorRef = n
              THEN [captures[n] EXCEPT !.processorConnected = FALSE,
                                       !.onaudioprocess = JNull]
              ELSE captures[n]
        c2 == IF microphoneRef = n
              THEN [c1 EXCEPT !.microphoneConnected = FALSE] ELSE c1
        c3 == IF audioContextRef # JNull /\ audioContextRef.id = n
              THEN [c2 EXCEPT !.contextOpen = FALSE] ELSE c2
    IN  IF streamRef = n THEN [c3 EXCEPT !.tracksLive = FALSE] ELSE c3

\* stopStreaming (lines 612-640)
stopStreaming ==
    /\ captures' = [n \in 1..Len(captures) |-> Stopped(n)]
    /\ audioContextRef' = JNull
    /\ streamRef' = JNull
    /\ microphoneOpen' = FALSE
    /\ currentSpeaker' = JNull
    /\ UNCHANGED <<bridgeVars, connection, voice, chatMessages, incomingMessageRef,
                   scheduledAudioSourcesRef, scheduledStartRef, contexts,
                   audioSources, socket, delivered, emitted, microphoneRef,
                   processorRef, pending, captured>>

\* microphoneToggle of AgentControls: the only caller of startStreaming and
\* stopStreaming, by the microphoneOpen it rendered with.
microphoneToggle ==
    IF ~microphoneOpen THEN startStreaming ELSE stopStreaming

\* processor.onaudioprocess of capture chain n (lines 586-596): the chain
\* delivers audio while its context is open and its nodes are connected.
Capturing(n) ==
    /\ captures[n].onaudioprocess # JNull
    /\ captures[n].contextOpen
    /\ captures[n].microphoneConnected
    /\ captures[n].processorConnected

onaudioprocess(n) ==
    /\ Capturing(n)
    /\ captured < MaxCaptured
    /\ captures[n].onaudioprocess.readyStateIsOpen
    /\ captured' = captured + 1
    /\ UNCHANGED <<bridgeVars, connection, voice, currentSpeaker, microphoneOpen,
                   chatMessages, incomingMessageRef, scheduledAudioSourcesRef,
                   scheduledStartRef, audioContextRef, contexts, audioSources,
                   socket, delivered, emitted, microphoneRef, processorRef,
                   streamRef, captures, pending>>

\* The buffers replayAudio is called with: empty, of an odd number of
\* bytes, of one sample.
ReplayBuffers == {ArrayBuffer(<<>>), ArrayBuffer(<<9>>), ArrayBuffer(<<5, 6>>)}

\* replayAudio (lines 317-355): a context of its own, closed at once for an
\* empty buffer, left open when `new Int16Array` throws on an odd byte
\* length, and otherwise playing the buffer from its current time.
replayAudio(audioData) ==
    /\ contexts < MaxContexts
    /\ contexts' = contexts + 1
    /\ captures' =
          Append(captures,
                 [NewContext EXCEPT
                     !.contextOpen = Len(audioData.bytes) # 0,
                     !.replaying = /\ Len(audioData.bytes) % 2 = 0
                                   /\ Len(audioData.bytes) \div 2 # 0])
    /\ UNCHANGED <<bridgeVars, connection, voice, currentSpeaker, microphoneOpen,
                   chatMessages, incomingMessageRef, scheduledAudioSourcesRef,
                   scheduledStartRef, audioContextRef, audioSources, socket,
                   delivered, emitted, microphoneRef, processorRef, streamRef,
                   pending, captured>>

\* The replayed source ends (its onended, lines 341-344) or the function
\* replayAudio returned is called (lines 347-355): the context is closed.
replayFinished(n) ==
    /\ n \in 1..Len(captures)
    /\ captures[n].replaying
    /\ captures' = [captures EXCEPT ![n].replaying = FALSE, ![n].contextOpen = FALSE]
    /\ UNCHANGED <<bridgeVars, connection, voice, currentSpeaker, microphoneOpen,
                   chatMessages, incomingMessageRef, scheduledAudioSourcesRef,
                   scheduledStartRef, audioContextRef, contexts, audioSources,
                   socket, delivered, emitted, microphoneRef, processorRef,
                   streamRef, pending, captured>>

\* onError: handleSocketError (lines 530-536); the close event of the socket
\* follows as SocketClose.
SocketError ==
    /\ socket \in {READY_STATES.CONNECTING, READY_STATES.OPEN}
    /\ microphoneOpen' = FALSE
    /\ Commit(handleSocketClose(Here))
    /\ UNCHANGED <<bridgeVars, captureVars, voice, audioContextRef, contexts,
                   delivered, socket>>

Voices == {DEFAULT_VOICE, S("aura-luna-en")}

\* updateVoice (lines 642-646)
updateVoice(newVoice) ==
    /\ newVoice # voice
    /\ voice' = newVoice
    /\ incomingMessageRef' = JNull
    /\ UNCHANGED <<bridgeVars, captureVars, connection, currentSpeaker, microphoneOpen,
                   chatMessages, scheduledAudioSourcesRef, scheduledStartRef,
                   audioContextRef, contexts, audioSources, socket, delivered,
                   emitted>>

\* The clock of the audio context advances.
ClockAdvances ==
    /\ audioContextRef # JNull
    /\ audioContextRef.currentTime < MaxTime
    /\ audioContextRef' = [audioContextRef EXCEPT !.currentTime = @ + 1]
    /\ UNCHANGED <<bridgeVars, captureVars, connection, voice, currentSpeaker, microphoneOpen,
                   chatMessages, incomingMessageRef, scheduledAudioSourcesRef,
                   scheduledStartRef, contexts, audioSources, socket, delivered,
                   emitted>>

(***************************************************************************)
(* Init: the process environment, before any request.                      *)
(***************************************************************************)
NoResponse == [kind |-> "none", status |-> 0, error |-> ""]

Init ==
    /\ config \in [deepGramApiKey : ApiKeySettings,
                   llmProvider : {JUndefined, JStr("openai", {1, 5, 6})},
                   llmApiKey : {S("sk-byo")},
                   llmModel : {JUndefined}]
    /\ pairSupport \in PairSupports
    /\ response = NoResponse
    /\ readyState = NoSockets
    /\ listeners = {}
    /\ fired = {}
    /\ fromClient = <<>>
    /\ toDeepgram = <<>>
    /\ fromDeepgram = <<>>
    /\ toClient = <<>>
    /\ closeCalls = <<>>
    /\ ClientInit

JsonError(status, error) == [kind |-> "json", status |-> status, error |-> error]

BridgeListeners ==
    {"deepgramSocket", "upstream"} \X {"message", "close", "error"}
        \cup {<<"deepgramSocket", "open">>}

(***************************************************************************)
(* GET (route.ts lines 19-246).                                            *)
(***************************************************************************)
GET(upgrade) ==
    /\ response.kind = "none"
    /\ UNCHANGED <<clientVars, config, pairSupport, fired, fromClient, toDeepgram,
                   fromDeepgram, toClient, closeCalls>>
    /\ IF ApiKeyMissing
       THEN /\ response' = JsonError(500, "Deepgram API key is not configured.")
            /\ UNCHANGED <<readyState, listeners>>
       ELSE IF UpgradeRejected(upgrade)
       THEN /\ response' = JsonError(400, "Expected a WebSocket upgrade request.")
            /\ UNCHANGED <<readyState, listeners>>
       ELSE IF pairSupport = "importFails"
       THEN /\ response' = JsonError(500,
                   "WebSocketPair is not supported in this environment.")
            /\ UNCHANGED <<readyState, listeners>>
       ELSE IF pairSupport = "importUndefined"
       THEN \* `new WebSocketPairCtor()` with an undefined constructor
            /\ response' = [kind |-> "exception", status |-> 0,
                            error |-> "TypeError"]
            /\ UNCHANGED <<readyState, listeners>>
       ELSE /\ readyState' = [s \in {"upstream", "deepgramSocket"} |->
                                 IF s = "upstream" THEN READY_STATES.OPEN
                                 ELSE READY_STATES.CONNECTING]
            /\ listeners' = BridgeListeners
            /\ response' = [kind |-> "upgrade", status |-> 101, error |-> ""]

(***************************************************************************)
(* deepgramSocket listeners (route.ts lines 156-187).                      *)
(***************************************************************************)
DeepgramOpen ==
    /\ Created("deepgramSocket")
    /\ readyState["deepgramSocket"] = READY_STATES.CONNECTING
    /\ readyState' = [readyState EXCEPT !["deepgramSocket"] = READY_STATES.OPEN]
    /\ UNCHANGED <<clientVars, config, pairSupport, response, listeners, fired,
                   fromClient, toDeepgram, fromDeepgram, toClient, closeCalls>>

\* Variant: the client socket is written to once it has been opened.
ClientCanReceiveOnceOpened(rs) == rs["upstream"] >= READY_STATES.OPEN

\* `upstream.readyState === READY_STATES.OPEN`
ClientCanReceive(rs) == rs["upstream"] = READY_STATES.OPEN

DeepgramMessage(frame, sendOk) ==
    /\ Created("deepgramSocket")
    /\ readyState["deepgramSocket"] \in {READY_STATES.OPEN, READY_STATES.CLOSING}
    /\ Len(fromDeepgram) < MaxDeepgramFrames
    /\ fromDeepgram' = Append(fromDeepgram, frame)
    /\ IF ClientCanReceive(readyState)
       THEN /\ toClient' = Append(toClient,
                   [idx |-> Len(fromDeepgram) + 1, data |-> frame, ok |-> sendOk])
            /\ IF sendOk
               THEN UNCHANGED <<readyState, closeCalls>>
               ELSE LET r == closeUpstream(readyState, closeCalls, 1011,
                                 "Forwarding error",
                                 Cause("deepgramSocket", "message", 0, ""))
                    IN  /\ readyState' = r.rs
                        /\ closeCalls' = r.calls
       ELSE /\ sendOk
            /\ UNCHANGED <<toClient, readyState, closeCalls>>
    /\ UNCHANGED <<clientVars, config, pairSupport, response, listeners, fired,
                   fromClient, toDeepgram>>

\* A close event follows an error event with the abnormal-closure code.
CloseEventAllowed(sock, ev) ==
    Fired(sock, "error") => ev.code = 1006

DeepgramClose(ev) ==
    /\ Created("deepgramSocket")
    /\ ~Fired("deepgramSocket", "close")
    /\ CloseEventAllowed("deepgramSocket", ev)
    /\ fired' = fired \cup {<<"deepgramSocket", "close">>}
    /\ LET rs1 == [readyState EXCEPT !["deepgramSocket"] = READY_STATES.CLOSED]
           r == closeClient(rs1, closeCalls, ev.code, ev.reason,
                    Cause("deepgramSocket", "close", ev.code, ev.reason))
       IN  /\ readyState' = r.rs
           /\ closeCalls' = r.calls
    /\ UNCHANGED <<clientVars, config, pairSupport, response, listeners,
                   fromClient, toDeepgram, fromDeepgram, toClient>>

DeepgramError ==
    /\ Created("deepgramSocket")
    /\ ~Fired("deepgramSocket", "close")
    /\ ~Fired("deepgramSocket", "error")
    /\ fired' = fired \cup {<<"deepgramSocket", "error">>}
    /\ LET rs1 == [readyState EXCEPT !["deepgramSocket"] = READY_STATES.CLOSED]
           r == closeClient(rs1, closeCalls, 1011, "Deepgram upstream error",
                    Cause("deepgramSocket", "error", 0, ""))
       IN  /\ readyState' = r.rs
           /\ closeCalls' = r.calls
    /\ UNCHANGED <<clientVars, config, pairSupport, response, listeners,
                   fromClient, toDeepgram, fromDeepgram, toClient>>

(***************************************************************************)
(* upstream (client-facing socket) listeners (route.ts lines 189-237).     *)
(***************************************************************************)
\* Variant: a frame is also passed to a socket that is closing.
DeepgramCanReceiveWhileClosing(rs) ==
    rs["deepgramSocket"] \in {READY_STATES.OPEN, READY_STATES.CLOSING}

\* `deepgramSocket.readyState !== READY_STATES.OPEN` drops the frame.
DeepgramCanReceive(rs) == rs["deepgramSocket"] = READY_STATES.OPEN

\* Variant: the `return` after sending the rewritten message is missing.
ForwardCallsWithoutReturn(frame) ==
    IF shouldInjectExternalLlm /\ frame.kind = "string"
    THEN LET mutated == injectExternalThinkSettings(frame.text)
         IN  IF ~mutated.isNull
             THEN << [data |-> StringFrame(mutated.text), via |-> "mutated"],
                     [data |-> frame, via |-> "original"] >>
             ELSE << [data |-> frame, via |-> "original"] >>
    ELSE << [data |-> frame, via |-> "original"] >>

\* The arguments of the deepgramSocket.send calls the listener makes for one
\* frame (lines 207-218), in call order.
ForwardCalls(frame) ==
    IF shouldInjectExternalLlm /\ frame.kind = "string"
    THEN LET mutated == injectExternalThinkSettings(frame.text)
         IN  IF ~mutated.isNull
             THEN << [data |-> StringFrame(mutated.text), via |-> "mutated"] >>
             ELSE << [data |-> frame, via |-> "original"] >>
    ELSE << [data |-> frame, via |-> "original"] >>

\* The log entries of those calls: a send that throws ends the try block.
SendLog(calls, idx, sendOk) ==
    IF sendOk
    THEN [i \in 1..Len(calls) |->
             [idx |-> idx, data |-> calls[i].data, via |-> calls[i].via,
              ok |-> TRUE]]
    ELSE << [idx |-> idx, data |-> calls[1].data, via |-> calls[1].via,
             ok |-> FALSE] >>

UpstreamMessage(frame, sendOk) ==
    /\ Created("upstream")
    /\ readyState["upstream"] \in {READY_STATES.OPEN, READY_STATES.CLOSING}
    /\ Len(fromClient) < MaxClientFrames
    /\ fromClient' = Append(fromClient, frame)
    /\ IF ~DeepgramCanReceive(readyState)
       THEN /\ sendOk
            /\ UNCHANGED <<toDeepgram, readyState, closeCalls>>
       ELSE /\ toDeepgram' = toDeepgram \o
                   SendLog(ForwardCalls(frame), Len(fromClient) + 1, sendOk)
            /\ IF sendOk
               THEN UNCHANGED <<readyState, closeCalls>>
               ELSE LET r == closeClient(readyState, closeCalls, 1011,
                                 "Forwarding error",
                                 Cause("upstream", "message", 0, ""))
                    IN  /\ readyState' = r.rs
                        /\ closeCalls' = r.calls
    /\ UNCHANGED <<clientVars, config, pairSupport, response, listeners, fired,
                   fromDeepgram, toClient>>

\* The browser client (src/unnamed/part_002) sends the agent request from
\* onOpen, before anything else; later it sends audio from onaudioprocess
\* and CloseStream from stopStreaming.
BrowserMaySend(frame) ==
    IF fromClient = <<>> THEN frame = AgentRequestFrame
    ELSE frame \in StreamingFrames

UpstreamClose(ev) ==
    /\ Created("upstream")
    /\ ~Fired("upstream", "close")
    /\ CloseEventAllowed("upstream", ev)
    /\ fired' = fired \cup {<<"upstream", "close">>}
    /\ LET rs1 == [readyState EXCEPT !["upstream"] = READY_STATES.CLOSED]
           r == closeUpstream(rs1, closeCalls, ev.code, ev.reason,
                    Cause("upstream", "close", ev.code, ev.reason))
       IN  /\ readyState' = r.rs
           /\ closeCalls' = r.calls
    /\ UNCHANGED <<clientVars, config, pairSupport, response, listeners,
                   fromClient, toDeepgram, fromDeepgram, toClient>>

UpstreamError ==
    /\ Created("upstream")
    /\ ~Fired("upstream", "close")
    /\ ~Fired("upstream", "error")
    /\ fired' = fired \cup {<<"upstream", "error">>}
    /\ LET rs1 == [readyState EXCEPT !["upstream"] = READY_STATES.CLOSED]
           r == closeUpstream(rs1, closeCalls, 1011, "Client error",
                    Cause("upstream", "error", 0, ""))
       IN  /\ readyState' = r.rs
           /\ closeCalls' = r.calls
    /\ UNCHANGED <<clientVars, config, pairSupport, response, listeners,
                   fromClient, toDeepgram, fromDeepgram, toClient>>

(***************************************************************************)
(* Specification.                                                          *)
(***************************************************************************)
Next ==
    \/ \E upgrade \in UpgradeHeaders : GET(upgrade)
    \/ DeepgramOpen
    \/ \E frame \in DeepgramFrames, sendOk \in BOOLEAN :
           DeepgramMessage(frame, sendOk)
    \/ \E ev \in CloseEvents : DeepgramClose(ev)
    \/ DeepgramError
    \/ \E frame \in StreamingFrames \cup {AgentRequestFrame}, sendOk \in BOOLEAN :
           BrowserMaySend(frame) /\ UpstreamMessage(frame, sendOk)
    \/ \E ev \in CloseEvents : UpstreamClose(ev)
    \/ UpstreamError

Spec == Init /\ [][Next]_vars

(***************************************************************************)
(* The rewriter under every bring-your-own-model setting and every kind of *)
(* client frame: an accepted upgrade, the upstream socket opening, and the *)
(* frames of an arbitrary client.                                          *)
(***************************************************************************)
RewriterInit ==
    /\ config \in [deepGramApiKey : {S("dg-secret-key")},
                   llmProvider : ProviderSettings,
                   llmApiKey : LlmKeySettings,
                   llmModel : LlmModelSettings]
    /\ pairSupport = "global"
    /\ response = NoResponse
    /\ readyState = NoSockets
    /\ listeners = {}
    /\ fired = {}
    /\ fromClient = <<>>
    /\ toDeepgram = <<>>
    /\ fromDeepgram = <<>>
    /\ toClient = <<>>
    /\ closeCalls = <<>>
    /\ ClientInit

RewriterNext ==
    \/ \E upgrade \in UpgradeHeaders : GET(upgrade)
    \/ DeepgramOpen
    \/ \E frame \in ClientFrames, sendOk \in BOOLEAN :
           UpstreamMessage(frame, sendOk)

RewriterSpec == RewriterInit /\ [][RewriterNext]_vars

(***************************************************************************)
(* The session under fair delivery of the close events that are due: the   *)
(* close event of a socket on which close() was called, and the close      *)
(* event that follows an error event.  Nothing obliges either endpoint to  *)
(* close a socket that is open.                                            *)
(***************************************************************************)
CloseIsDue(sock) ==
    /\ Created(sock)
    /\ readyState[sock] = READY_STATES.CLOSING \/ Fired(sock, "error")

DeepgramCloseCompletes ==
    CloseIsDue("deepgramSocket") /\ \E ev \in CloseEvents : DeepgramClose(ev)

UpstreamCloseCompletes ==
    CloseIsDue("upstream") /\ \E ev \in CloseEvents : UpstreamClose(ev)

FairSpec ==
    /\ Spec
    /\ WF_vars(DeepgramCloseCompletes)
    /\ WF_vars(UpstreamCloseCompletes)

(***************************************************************************)
(* The browser client on its own: the bridge it talks to stays as it is.   *)
(***************************************************************************)
BridgeInit ==
    /\ config = [deepGramApiKey |-> S("dg-secret-key"), llmProvider |-> JUndefined,
                 llmApiKey |-> JUndefined, llmModel |-> JUndefined]
    /\ pairSupport = "global"
    /\ response = NoResponse
    /\ readyState = NoSockets
    /\ listeners = {}
    /\ fired = {}
    /\ fromClient = <<>>
    /\ toDeepgram = <<>>
    /\ fromDeepgram = <<>>
    /\ toClient = <<>>
    /\ closeCalls = <<>>

ClientSpecInit == BridgeInit /\ ClientInit

\* The frames of a short voice exchange.
ExchangeFrames ==
    { UserFinalFrame, ModelTranscriptFrame, TextFrame(Hi), CompletedTextFrame(There),
      TwoPartFrame, AudioDeltaFrame, AudioResponseFrame, CloseFrame,
      StringFrame(InvalidText) }

MaxExchange == 2
MaxSessions == 1

ClientNext ==
    \/ SocketOpen
    \/ \E frame \in ExchangeFrames :
           Len(delivered) < MaxExchange /\ OnMessage(frame)
    \/ SocketClose
    \/ Reconnect
    \/ (microphoneOpen \/ contexts < MaxSessions) /\ microphoneToggle
    \/ \E call \in pending : startStreamingResumed(call)
    \/ \E call \in pending : startStreamingRejected(call)
    \/ \E audioData \in ReplayBuffers :
           contexts < MaxSessions /\ replayAudio(audioData)
    \/ \E n \in 1..Len(captures) : replayFinished(n)
    \/ \E newVoice \in Voices : updateVoice(newVoice)

ClientSpec == ClientSpecInit /\ [][ClientNext]_vars

(***************************************************************************)
(* Playback: the audio contexts and their clocks, the audio deltas, and     *)
(* what clears the schedule, over the life of one connection.              *)
(***************************************************************************)
MaxPlayback == 3

PlaybackFrames ==
    { AudioDeltaFrame, OddAudioDeltaFrame, AudioResponseFrame, UserFinalFrame,
      UserFinalEmptyFrame }

PlaybackNext ==
    \/ SocketOpen
    \/ \E frame \in PlaybackFrames :
           Len(delivered) < MaxPlayback /\ OnMessage(frame)
    \/ SocketClose
    \/ microphoneToggle
    \/ \E call \in pending : startStreamingResumed(call)
    \/ \E call \in pending : startStreamingRejected(call)
    \/ \E audioData \in ReplayBuffers : replayAudio(audioData)
    \/ \E n \in 1..Len(captures) : replayFinished(n)
    \/ ClockAdvances

PlaybackSpec == ClientSpecInit /\ [][PlaybackNext]_vars

(***************************************************************************)
(* Capture: the microphone chain of startStreaming, what stops it, and the *)
(* socket events that end a session.                                       *)
(***************************************************************************)
CaptureNext ==
    \/ SocketOpen
    \/ SocketClose
    \/ SocketError
    \/ Reconnect
    \/ microphoneToggle
    \/ \E call \in pending : startStreamingResumed(call)
    \/ \E call \in pending : startStreamingRejected(call)
    \/ \E audioData \in ReplayBuffers : replayAudio(audioData)
    \/ \E n \in 1..Len(captures) : replayFinished(n)
    \/ \E n \in 1..Len(captures) : onaudioprocess(n)

CaptureSpec == ClientSpecInit /\ [][CaptureNext]_vars

(***************************************************************************)
(* The aggregator under every kind of frame, on a socket that stays open.  *)
(***************************************************************************)
AggregatorNext ==
    \/ SocketOpen
    \/ \E frame \in AgentFrames : OnMessage(frame)

AggregatorSpec == ClientSpecInit /\ [][AggregatorNext]_vars

(***************************************************************************)
(* The classification of transcripts by speaker: final transcripts that    *)
(* differ in the fields parseSpeaker reads, on a socket that stays open.   *)
(***************************************************************************)
\* {"type":"transcript","transcript":"hello", ...fields}
Transcript(fields) ==
    Json(JObj(fields @@ [type |-> S("transcript"), transcript |-> Hello]))

Final == JBool(TRUE)

SpeakerTokens ==
    UserAliases \cup ModelAliases \cup
    {S("operator"), S(""), JStr("agent", {1}), JStr("user", {1, 2, 3, 4}),
     JStr("customer", {1}), JNum(5), JNull}

SpeakerFrames ==
    {Transcript([speaker |-> token, is_final |-> Final]) : token \in SpeakerTokens}
    \cup
    { Transcript([is_final |-> Final]),
      Transcript([role |-> S("agent"), is_final |-> Final]),
      Transcript([participant |-> S("caller"), is_final |-> Final]),
      Transcript([metadata |-> JObj([speaker |-> S("bot")]), is_final |-> Final]),
      Transcript([source |-> S("system"), is_final |-> Final]),
      Transcript([speaker |-> S(""), role |-> S("ai"), is_final |-> Final]),
      Transcript([speaker |-> S("user"), role |-> S("agent"), is_final |-> Final]),
      Transcript([role |-> S("operator"), source |-> S("agent"), is_final |-> Final]),
      Transcript([participant |-> S("bot"), source |-> S("user"), is_final |-> Final]),
      Transcript([metadata |-> JObj([speaker |-> S("caller")]), source |-> S("ai"),
                  is_final |-> Final]),
      Transcript([metadata |-> S("user"), source |-> S("model"), is_final |-> Final]),
      Transcript([speaker |-> JNull, participant |-> JNum(0), source |-> S("assistant"),
                  is_final |-> Final]),
      Transcript([speaker |-> S("model")]),
      Transcript([speaker |-> S("operator")]),
      Transcript([source |-> S("customer")]) }

ClassifierNext ==
    \/ SocketOpen
    \/ \E frame \in SpeakerFrames : OnMessage(frame)

ClassifierSpec == ClientSpecInit /\ [][ClassifierNext]_vars

(***************************************************************************)
(* Completion: agent-response payloads with one text sub-object that       *)
(* differ in the fields responseIsComplete reads, placed on the sub-object *)
(* or on the outer payload, on a socket that stays open.                   *)
(***************************************************************************)
MaxCompletion == 2

StatusFields ==
    {EmptyFields, [status |-> S("done")], [status |-> JStr("completed", {1})],
     [status |-> S("in_progress")]}
ReasonFields == {EmptyFields, [completion_reason |-> S("stop")]}
DoneFields == {EmptyFields, [done |-> JBool(TRUE)], [done |-> JBool(FALSE)]}

SignalFields ==
    {status @@ reason @@ done :
        status \in StatusFields, reason \in ReasonFields, done \in DoneFields}

\* {"type":"agent-response","responses":[{"type":"text","text":"Hi", ...fields}]}
SubObjectFrame(fields) ==
    Json(JObj([type |-> S("agent-response"),
               responses |-> JArr(<<JObj(fields @@ [type |-> S("text"),
                                                    text |-> Hi])>>)]))

\* {"type":"agent-response","response":{"type":"text","text":"Hi"}, ...fields}
OuterFrame(fields) ==
    Json(JObj(fields @@ [type |-> S("agent-response"),
                         response |-> TextResponse(Hi)]))

\* {"type":"agent-response","responses":[{"type":"text","text":"Hi"},{"type":name}]}
TypedFrame(name) ==
    Json(JObj([type |-> S("agent-response"),
               responses |-> JArr(<<TextResponse(Hi), JObj([type |-> name])>>)]))

CompletionFrames ==
    {SubObjectFrame(fields) : fields \in SignalFields}
    \cup {OuterFrame(fields) : fields \in SignalFields}
    \cup {TypedFrame(name) : name \in {S("done"), S("completed"), S("delta")}}

CompletionNext ==
    \/ SocketOpen
    \/ \E frame \in CompletionFrames :
           Len(delivered) < MaxCompletion /\ OnMessage(frame)

CompletionSpec == ClientSpecInit /\ [][CompletionNext]_vars

(***************************************************************************)
(* Finality: transcripts of the user that differ in the fields             *)
(* isFinalTranscript reads, on a socket that stays open.                   *)
(***************************************************************************)
MaxFinality == 2

\* [{"transcript":"hello","confidence":n}]
Alternatives(n) ==
    JArr(<<JObj([transcript |-> Hello, confidence |-> JNum(n)])>>)

\* {"type":"transcript","speaker":"user", ...fields}
UserTranscript(fields) ==
    Json(JObj(fields @@ [type |-> S("transcript"), speaker |-> S("user")]))

FinalityFrames ==
    { UserTranscript([transcript |-> Hello, is_final |-> JBool(TRUE)]),
      UserTranscript([transcript |-> Hello, final |-> JBool(TRUE)]),
      UserTranscript([transcript |-> Hello, is_final |-> JBool(FALSE)]),
      UserTranscript([transcript |-> Hello]),
      UserTranscript([channel |-> JObj([alternatives |-> Alternatives(1)])]),
      UserTranscript([channel |-> JObj([alternatives |-> Alternatives(0)])]),
      UserTranscript([alternatives |-> Alternatives(1)]),
      UserTranscript([results |-> JObj([alternatives |-> Alternatives(1)])]),
      Json(JObj([type |-> S("final_transcript"), transcript |-> Hello,
                 speaker |-> S("user")])),
      Json(JObj([type |-> S("event"),
                 data |-> JObj([type |-> S("final_transcript"), transcript |-> Hello,
                                speaker |-> S("user")])])),
      Json(JObj([type |-> S("event"),
                 data |-> JObj([type |-> S("transcript"), transcript |-> Hello,
                                speaker |-> S("user"), final |-> JBool(TRUE)])])) }

FinalityNext ==
    \/ SocketOpen
    \/ \E frame \in FinalityFrames :
           Len(delivered) < MaxFinality /\ OnMessage(frame)

FinalitySpec == ClientSpecInit /\ [][FinalityNext]_vars

(***************************************************************************)
(* Ignored transcripts: transcripts of the user that are not final and     *)
(* transcripts without a text, arriving while a message is open and audio  *)
(* is scheduled.                                                           *)
(***************************************************************************)
MaxIgnored == 3

\* {"type":"event","data":{"type":"transcript","transcript":"hello","speaker":"user"}}
NestedPartialFrame ==
    Json(JObj([type |-> S("event"),
               data |-> JObj([type |-> S("transcript"), transcript |-> Hello,
                              speaker |-> S("user")])]))

IgnoredFrames ==
    { UserPartialFrame,
      UserTranscript([transcript |-> Hello]),
      UserTranscript([transcript |-> Hello, is_final |-> JBool(FALSE)]),
      UserTranscript([channel |-> JObj([alternatives |-> Alternatives(0)])]),
      NestedPartialFrame,
      UserFinalEmptyFrame,
      UserTranscript([is_final |-> JBool(TRUE)]),
      UserTranscript([words |-> JArr(<<>>), final |-> JBool(TRUE)]),
      Json(JObj([type |-> S("transcript"), speaker |-> S("agent")])) }

IgnoredNext ==
    \/ SocketOpen
    \/ microphoneToggle
    \/ \E call \in pending : startStreamingResumed(call)
    \/ \E call \in pending : startStreamingRejected(call)
    \/ \E audioData \in ReplayBuffers : replayAudio(audioData)
    \/ \E n \in 1..Len(captures) : replayFinished(n)
    \/ \E frame \in IgnoredFrames \cup {AudioDeltaFrame, TextFrame(Hi), UserFinalFrame} :
           Len(delivered) < MaxIgnored /\ OnMessage(frame)

IgnoredSpec == ClientSpecInit /\ [][IgnoredNext]_vars

(***************************************************************************)
(* Vocabulary of the properties.                                           *)
(***************************************************************************)
Active(state) == state \in {READY_STATES.OPEN, READY_STATES.CONNECTING}

LastCall(calls) == calls[Len(calls)]

\* This step called close(code, reason) on `sock`, and the socket is closing.
ClosesWith(sock, code, reason) ==
    /\ Len(closeCalls') = Len(closeCalls) + 1
    /\ LastCall(closeCalls').target = sock
    /\ LastCall(closeCalls').code = code
    /\ LastCall(closeCalls').reason = reason
    /\ LastCall(closeCalls').outcome = "closing"
    /\ readyState'[sock] = READY_STATES.CLOSING

\* This step called close(code, _) on `sock` with some reason that is not empty.
ClosesWithSomeReason(sock, code) ==
    \E reason \in {"Forwarding error", "Client error", "Deepgram upstream error"} :
        ClosesWith(sock, code, reason)

(***************************************************************************)
(* C1.  In each direction the frames passed to send() are an               *)
(* order-preserving subsequence of the frames received: every send is for  *)
(* a received frame, the sends follow the order of arrival, no frame is    *)
(* sent twice, and the data sent is the data received unless the frame is  *)
(* a client string frame that the rewriter replaced.                       *)
(***************************************************************************)
C1_ForwardingPreservesOrder ==
    /\ \A i \in 1..Len(toDeepgram) :
          LET e == toDeepgram[i]
          IN  /\ e.idx \in 1..Len(fromClient)
              /\ i > 1 => toDeepgram[i - 1].idx < e.idx
              /\ \/ e.data = fromClient[e.idx]
                 \/ /\ fromClient[e.idx].kind = "string"
                    /\ e.via = "mutated"
    /\ \A i \in 1..Len(toClient) :
          LET e == toClient[i]
          IN  /\ e.idx \in 1..Len(fromDeepgram)
              /\ i > 1 => toClient[i - 1].idx < e.idx
              /\ e.data = fromDeepgram[e.idx]

\* Two frames forwarded in each direction, the first client frame rewritten.
C1_Witness ==
    /\ Len(toDeepgram) = 2
    /\ toDeepgram[1].via = "mutated" /\ toDeepgram[1].data # fromClient[1]
    /\ toDeepgram[2].data = fromClient[2]
    /\ Len(toClient) = 2

(***************************************************************************)
(* C2.  The first frame forwarded to the upstream socket is the client's   *)
(* agent request (the first frame the client sends): nothing is forwarded  *)
(* upstream before it.                                                     *)
(***************************************************************************)
C2_AgentRequestForwardedFirst ==
    toDeepgram # <<>> =>
        /\ toDeepgram[1].idx = 1
        /\ fromClient[1] = AgentRequestFrame

(***************************************************************************)
(* C3.  A close event with code 1000 on the client socket while the        *)
(* upstream socket is OPEN calls close(1000, same reason) on the upstream  *)
(* socket, and once the client socket's close event has been delivered no  *)
(* further send() is made in either direction.                             *)
(***************************************************************************)
C3_CleanClientClose ==
    /\ [][\A ev \in CloseEvents :
             ( /\ ev.code = 1000
               /\ Created("deepgramSocket")
               /\ readyState["deepgramSocket"] = READY_STATES.OPEN
               /\ UpstreamClose(ev) )
             => ClosesWith("deepgramSocket", 1000, ev.reason)]_vars
    /\ [][Fired("upstream", "close")
             => toDeepgram' = toDeepgram /\ toClient' = toClient]_vars

\* The client closed with 1000, the upstream socket was closed with the same
\* code and reason, and a frame that arrived from upstream afterwards was not
\* forwarded.
C3_Witness ==
    /\ Fired("upstream", "close")
    /\ \E i \in 1..Len(closeCalls) :
          /\ closeCalls[i].target = "deepgramSocket"
          /\ closeCalls[i].code = 1000 /\ closeCalls[i].reason = "done"
          /\ closeCalls[i].outcome = "closing"
          /\ closeCalls[i].cause = Cause("upstream", "close", 1000, "done")
    /\ toClient = <<>>
    /\ Len(fromDeepgram) > 0

(***************************************************************************)
(* C4.  A close or error event on one socket while the peer is OPEN or     *)
(* CONNECTING closes the peer: with the event's code and reason for a      *)
(* close event that carried a code, and with 1011 and a descriptive reason *)
(* for an error event or a close event that carried no code (code 1005).   *)
(***************************************************************************)
C4_ClosePropagates ==
    [][ /\ \A ev \in CloseEvents :
             ( /\ Created("deepgramSocket")
               /\ Active(readyState["deepgramSocket"])
               /\ UpstreamClose(ev) )
             => IF ev.code = 1005
                THEN ClosesWithSomeReason("deepgramSocket", 1011)
                ELSE ClosesWith("deepgramSocket", ev.code, ev.reason)
        /\ \A ev \in CloseEvents :
             ( /\ Created("upstream")
               /\ Active(readyState["upstream"])
               /\ DeepgramClose(ev) )
             => IF ev.code = 1005
                THEN ClosesWithSomeReason("upstream", 1011)
                ELSE ClosesWith("upstream", ev.code, ev.reason)
        /\ ( /\ Created("deepgramSocket")
             /\ Active(readyState["deepgramSocket"])
             /\ UpstreamError )
             => ClosesWithSomeReason("deepgramSocket", 1011)
        /\ ( /\ Created("upstream")
             /\ Active(readyState["upstream"])
             /\ DeepgramError )
             => ClosesWithSomeReason("upstream", 1011) ]_vars

(***************************************************************************)
(* C5.  Once either socket of a session is CLOSED, the session eventually  *)
(* has both sockets CLOSED.                                                *)
(***************************************************************************)
OneSocketClosed ==
    /\ Created("upstream")
    /\ \/ readyState["upstream"] = READY_STATES.CLOSED
       \/ readyState["deepgramSocket"] = READY_STATES.CLOSED

BothSocketsClosed ==
    /\ Created("upstream")
    /\ readyState["upstream"] = READY_STATES.CLOSED
    /\ readyState["deepgramSocket"] = READY_STATES.CLOSED

C5_SessionEventuallyClosed == OneSocketClosed ~> BothSocketsClosed

(***************************************************************************)
(* Vocabulary of the properties about GET and the rewriter, stated on the  *)
(* configuration and the frames themselves.                                *)
(***************************************************************************)
NonEmptyString(v) == v.t = "string" /\ v.lower # ""

KeyConfigured == NonEmptyString(config.deepGramApiKey)

IsWebSocketHeader(header) == header.t = "string" /\ header.lower = "websocket"

ByoConfigured ==
    NonEmptyString(config.llmProvider) /\ NonEmptyString(config.llmApiKey)

\* The text is JSON for an object whose type is the string agent-request in
\* any letter case.
HasAgentRequestType(text) ==
    /\ text.valid
    /\ text.value.t = "object"
    /\ "type" \in DOMAIN text.value.fields
    /\ text.value.fields["type"].t = "string"
    /\ text.value.fields["type"].lower = "agent-request"

NoSocketCreated == readyState = NoSockets /\ listeners = {}

(***************************************************************************)
(* C6 as stated.  Every request whose Upgrade header is absent or is not   *)
(* websocket in any letter case is answered with status 400 and a JSON     *)
(* error body, and no socket is created for it.                            *)
(***************************************************************************)
C6_RejectedWith400 ==
    [][\A header \in UpgradeHeaders :
          (GET(header) /\ ~IsWebSocketHeader(header))
          => /\ response'.kind = "json" /\ response'.status = 400
             /\ NoSocketCreated']_vars

(***************************************************************************)
(* C6 amended.  Every request whose Upgrade header is absent or is not     *)
(* websocket in any letter case is answered with a JSON error body and no  *)
(* socket is created for it; the status is 400 when an API key is          *)
(* configured and 500 when none is.                                        *)
(***************************************************************************)
C6_RejectedWith400Or500 ==
    [][\A header \in UpgradeHeaders :
          (GET(header) /\ ~IsWebSocketHeader(header))
          => /\ response'.kind = "json"
             /\ response'.status = IF KeyConfigured THEN 400 ELSE 500
             /\ response'.error # ""
             /\ NoSocketCreated']_vars

C6_Witness ==
    /\ KeyConfigured
    /\ response = JsonError(400, "Expected a WebSocket upgrade request.")
    /\ NoSocketCreated

(***************************************************************************)
(* C7.  When no API key is configured (unset or empty), GET answers 500    *)
(* with a JSON error body, and neither socket is created nor any listener  *)
(* registered.                                                             *)
(***************************************************************************)
C7_MissingKeyIs500 ==
    (response.kind # "none" /\ ~KeyConfigured)
    => /\ response = JsonError(500, "Deepgram API key is not configured.")
       /\ NoSocketCreated

C7_Witness ==
    /\ config.deepGramApiKey = S("")
    /\ pairSupport = "global"
    /\ response.status = 500
    /\ NoSocketCreated

(***************************************************************************)
(* C8.  A client string frame whose type is not agent-request (in any      *)
(* letter case) is forwarded upstream unchanged, with or without a         *)
(* bring-your-own-model configuration.                                     *)
(***************************************************************************)
C8_OtherTypesUnchanged ==
    \A i \in 1..Len(toDeepgram) :
        LET e == toDeepgram[i]
            received == fromClient[e.idx]
        IN  (received.kind = "string" /\ ~HasAgentRequestType(received.text))
            => e.data = received

\* CloseStream, and a frame that is not JSON, forwarded under a configuration
\* that rewrites agent requests.
C8_Witness ==
    /\ ByoConfigured
    /\ Len(toDeepgram) = 2
    /\ toDeepgram[1].data = CloseStreamFrame /\ toDeepgram[1].ok
    /\ toDeepgram[2].data = StringFrame(InvalidText) /\ toDeepgram[2].ok

(***************************************************************************)
(* C9.  A client string frame is replaced by a rewritten message exactly   *)
(* when provider and apiKey are both configured, the frame parses as JSON  *)
(* and its type is agent-request in any letter case.  Every other frame is *)
(* forwarded as received, and as long as send() itself does not throw the  *)
(* listener closes neither socket.                                         *)
(***************************************************************************)
C9_RewrittenIffConfiguredAgentRequest ==
    /\ \A i \in 1..Len(toDeepgram) :
          LET e == toDeepgram[i]
              received == fromClient[e.idx]
              rewrites == /\ ByoConfigured
                          /\ received.kind = "string"
                          /\ HasAgentRequestType(received.text)
          IN  /\ (e.via = "mutated") <=> rewrites
              /\ rewrites =>
                    /\ e.data.kind = "string"
                    /\ e.data.text.valid
                    /\ Get(Get(e.data.text.value, "agent"), "think").t = "object"
              /\ ~rewrites => e.data = received
    /\ (Created("upstream") /\ \A i \in 1..Len(toDeepgram) : toDeepgram[i].ok)
       => /\ closeCalls = <<>>
          /\ readyState["upstream"] = READY_STATES.OPEN
          /\ Active(readyState["deepgramSocket"])

\* A rewritten agent request followed by a frame that does not parse, both
\* sent, no socket closed.
C9_Witness ==
    /\ ByoConfigured
    /\ Len(toDeepgram) = 2
    /\ toDeepgram[1].via = "mutated" /\ toDeepgram[1].data # fromClient[1]
    /\ toDeepgram[2].data = StringFrame(InvalidText)
    /\ toDeepgram[1].ok /\ toDeepgram[2].ok
    /\ closeCalls = <<>>

(***************************************************************************)
(* C10.  The think block of a rewritten agent request.                     *)
(***************************************************************************)
ThinkOf(entry) == Get(Get(entry.data.text.value, "agent"), "think")

\* The model the configuration asks for: the configured model when it is
\* set, otherwise the entry of the provider in the default-model table
\* (openai, claude), otherwise none.
ExpectedModel ==
    IF NonEmptyString(config.llmModel) THEN config.llmModel
    ELSE IF config.llmProvider.lower = "openai" THEN S("gpt-4o-mini")
    ELSE IF config.llmProvider.lower = "claude" THEN S("claude-3-haiku-20240307")
    ELSE JUndefined

ThinkCarries(entry, providerType) ==
    LET think == ThinkOf(entry)
        provider == Get(think, "provider")
    IN  /\ Get(think, "auth") =
              JObj([type |-> S("api_key"), value |-> config.llmApiKey])
        /\ Get(provider, "type") = providerType
        /\ IF ExpectedModel.t = "undefined"
           THEN DOMAIN provider.fields = {"type"}
           ELSE /\ DOMAIN provider.fields = {"type", "model"}
                /\ provider.fields["model"] = ExpectedModel

(***************************************************************************)
(* C10 as stated.  In a rewritten agent request, agent.think.auth is       *)
(* {type: api_key, value: the configured apiKey}, provider.type is the     *)
(* configured provider, and provider.model is the configured model when    *)
(* one is set, otherwise the provider's default, and is omitted when       *)
(* neither exists.                                                         *)
(***************************************************************************)
C10_ThinkUsesConfiguredProvider ==
    \A i \in 1..Len(toDeepgram) :
        toDeepgram[i].via = "mutated"
        => ThinkCarries(toDeepgram[i], config.llmProvider)

(***************************************************************************)
(* C11.  What a rewritten agent request keeps of the message received.     *)
(***************************************************************************)
\* The fields of a JSON value: those of an object, none for any other value.
FieldsOf(v) == IF v.t = "object" THEN v.fields ELSE EmptyFields

Without(fields, key) == [k \in (DOMAIN fields) \ {key} |-> fields[k]]

\* The agent received is an object, or null, or absent.
AgentIsObjectOrNone(received) ==
    Get(received, "agent").t \in {"object", "null", "undefined"}

\* The characters of a string, the items of an array, nothing for any other
\* value.
ItemsOf(v) ==
    IF IsString(v) THEN [i \in 1..Len(Chars(v)) |-> FromChars(<<Chars(v)[i]>>)]
    ELSE IF IsArray(v) THEN v.items
    ELSE <<>>

\* The fields are the items under their index keys "0", "1", ...
HoldsItems(fields, items) ==
    /\ DOMAIN fields = {ToString(i - 1) : i \in 1..Len(items)}
    /\ \A i \in 1..Len(items) : fields[ToString(i - 1)] = items[i]

\* Every top-level field other than agent, every field of agent other than
\* think, and agent.instructions are as received.
OnlyThinkDiffers(received, sent) ==
    /\ sent.t = "object"
    /\ Without(sent.fields, "agent") = Without(received.fields, "agent")
    /\ Without(FieldsOf(Get(sent, "agent")), "think")
          = Without(FieldsOf(Get(received, "agent")), "think")
    /\ Get(Get(sent, "agent"), "instructions")
          = OptGet(Get(received, "agent"), "instructions")

(***************************************************************************)
(* C11 as stated.  A rewritten agent request differs from the message      *)
(* received only in agent.think: every top-level field other than agent    *)
(* has the same value, every field of agent other than think has the same  *)
(* value, and agent.instructions is exactly the instructions received      *)
(* (absent when none was received).                                        *)
(***************************************************************************)
C11_OnlyThinkDiffers ==
    \A i \in 1..Len(toDeepgram) :
        toDeepgram[i].via = "mutated"
        => OnlyThinkDiffers(fromClient[toDeepgram[i].idx].text.value,
                            toDeepgram[i].data.text.value)

(***************************************************************************)
(* C11 amended.  As stated when the agent received is an object, null or   *)
(* absent.  An agent that is any other value is replaced by an object:     *)
(* apart from think it holds the characters of a string or the items of    *)
(* an array under their index keys and nothing for a number or a boolean;  *)
(* the top-level fields other than agent are as received.                  *)
(***************************************************************************)
C11_OnlyThinkDiffersOfObjectAgent ==
    \A i \in 1..Len(toDeepgram) :
        LET received == fromClient[toDeepgram[i].idx].text.value
            sent == toDeepgram[i].data.text.value
        IN  toDeepgram[i].via = "mutated"
            => IF AgentIsObjectOrNone(received)
               THEN OnlyThinkDiffers(received, sent)
               ELSE /\ sent.t = "object"
                    /\ Without(sent.fields, "agent") = Without(received.fields, "agent")
                    /\ Get(sent, "agent").t = "object"
                    /\ HoldsItems(Without(Get(sent, "agent").fields, "think"),
                                  ItemsOf(Get(received, "agent")))

\* The request with instructions, an own think block and unknown fields was
\* rewritten: its think block was replaced, everything else was kept.  Then
\* a request whose agent is a string was rewritten: the agent sent is an
\* object that holds the character and the think block.
C11_Witness ==
    /\ Len(toDeepgram) = 2
    /\ fromClient[toDeepgram[1].idx] = ThinkingRequestFrame
    /\ toDeepgram[1].via = "mutated" /\ toDeepgram[1].ok
    /\ ThinkOf(toDeepgram[1]) = thinkConfig
    /\ ThinkOf(toDeepgram[1]) # Get(Get(ThinkingRequestFrame.text.value, "agent"), "think")
    /\ Get(Get(toDeepgram[1].data.text.value, "agent"), "instructions")
          = JStr("be brief", {1})
    /\ toDeepgram[2].via = "mutated" /\ toDeepgram[2].ok
    /\ Get(fromClient[toDeepgram[2].idx].text.value, "agent") = S("x")
    /\ DOMAIN Get(toDeepgram[2].data.text.value, "agent").fields = {"0", "think"}

(***************************************************************************)
(* Vocabulary of the properties about the browser client.                  *)
(***************************************************************************)
\* The payload of a string frame that parses, undefined otherwise.
PayloadOf(frame) ==
    IF frame.kind = "string" /\ frame.text.valid THEN frame.text.value
    ELSE JUndefined

HasType(payload, name) ==
    /\ payload.t = "object"
    /\ Get(payload, "type").t = "string"
    /\ Get(payload, "type").lower = name

\* The frame is a transcript that is final and whose speaker resolves to the
\* user role or to no role.
IsFinalUserTranscript(frame) ==
    /\ HasType(PayloadOf(frame), "transcript")
    /\ IsTrue(isFinalTranscript(PayloadOf(frame)))
    /\ parseSpeaker(PayloadOf(frame)) \in {S("user"), JNull}

TranscriptText(frame) == extractTranscriptText(PayloadOf(frame))

MessageOpen == incomingMessageRef # JNull

\* The positions of the conversation that hold the open message.
OpenPositions ==
    {i \in 1..Len(chatMessages) :
        MessageOpen /\ chatMessages[i].id = incomingMessageRef.id}

\* This step is a barge-in: no message is open afterwards, the schedule is
\* empty, every source that was scheduled has been stopped, and the
\* conversation has grown by one user message with the transcript text.
BargesIn(frame) ==
    /\ incomingMessageRef' = JNull
    /\ scheduledAudioSourcesRef' = <<>>
    /\ \A k \in 1..Len(scheduledAudioSourcesRef) :
          audioSources'[scheduledAudioSourcesRef[k]].stopped
    /\ Len(chatMessages') = Len(chatMessages) + 1
    /\ chatMessages'[Len(chatMessages')].role = "user"
    /\ chatMessages'[Len(chatMessages')].content = TranscriptText(frame)
    /\ \A i \in 1..Len(chatMessages) : chatMessages'[i] = chatMessages[i]

\* A message that is not the open one is not changed by this step.
ClosedMessagesKept ==
    \A i \in 1..Len(chatMessages) :
        i \notin OpenPositions
        => /\ i <= Len(chatMessages')
           /\ chatMessages'[i] = chatMessages[i]

(***************************************************************************)
(* C12 as stated.  When a final user transcript arrives while a model      *)
(* message is open, afterwards no model message is open, the playback      *)
(* schedule is empty with every scheduled segment stopped, and the         *)
(* conversation ends with a new user message carrying the transcript text; *)
(* no later step changes the model message that was open.                  *)
(***************************************************************************)
C12_BargeIn ==
    [][ /\ \A frame \in PlaybackFrames :
             (IsFinalUserTranscript(frame) /\ MessageOpen /\ OnMessage(frame))
             => BargesIn(frame)
        /\ ClosedMessagesKept ]_vars

(***************************************************************************)
(* C12 amended.  As stated, for a final user transcript whose text is not  *)
(* empty; a final user transcript with an empty text changes nothing.      *)
(***************************************************************************)
C12_BargeInOnText ==
    [][ /\ \A frame \in PlaybackFrames :
             (IsFinalUserTranscript(frame) /\ MessageOpen /\ OnMessage(frame))
             => IF Truthy(TranscriptText(frame))
                THEN BargesIn(frame)
                ELSE UNCHANGED <<chatMessages, incomingMessageRef,
                                 scheduledAudioSourcesRef, audioSources>>
        /\ ClosedMessagesKept ]_vars

\* An audio delta opened a message and was scheduled; a final user transcript
\* stopped it and appended the user message; the next audio delta opened a
\* new message and left the first one as it was.
C12_Witness ==
    /\ delivered = <<AudioDeltaFrame, UserFinalFrame, AudioDeltaFrame>>
    /\ Len(audioSources) = 2
    /\ audioSources[1].stopped /\ ~audioSources[2].stopped
    /\ scheduledAudioSourcesRef = <<2>>
    /\ Len(chatMessages) = 3
    /\ chatMessages[1].role = "model"
    /\ chatMessages[1].audio = ArrayBuffer(<<5, 6>>)
    /\ chatMessages[2].role = "user" /\ chatMessages[2].content = Hello
    /\ OpenPositions = {3}

(***************************************************************************)
(* Vocabulary of C13: runs of text payloads in the frames delivered so     *)
(* far, and the state the handlers reach from the initial one.             *)
(***************************************************************************)
\* The state in which the first frame is handled: onOpen has run.
Opened ==
    [connection |-> TRUE, currentSpeaker |-> JNull, chatMessages |-> <<>>,
     incomingMessageRef |-> JNull, scheduledAudioSourcesRef |-> <<>>,
     scheduledStartRef |-> 0, audioSources |-> <<>>, emitted |-> <<>>,
     threw |-> FALSE]

RECURSIVE Replay(_, _)
Replay(c, frames) ==
    IF frames = <<>> THEN c
    ELSE Replay(handleUpstreamMessage([c EXCEPT !.emitted = <<>>], Head(frames)),
                Tail(frames))

\* The text of the single sub-object of a text payload.
RunText(frame) == Get(Get(PayloadOf(frame), "response"), "text")

\* frames[from..to] is a run of payloads with one text sub-object each, of
\* which only the last signals completion, on the outer payload.
IsTextRun(frames, from, to) ==
    /\ from <= to
    /\ \A i \in from..to :
          /\ RunText(frames[i]).t = "text"
          /\ frames[i] = IF i < to THEN TextFrame(RunText(frames[i]))
                         ELSE CompletedTextFrame(RunText(frames[i]))

RunTexts(frames, from, to) == [i \in 1..(to - from + 1) |-> RunText(frames[from + i - 1])]

\* The text is not empty and neither starts nor ends with whitespace.
IsCleanText(text) ==
    /\ text.tokens # <<>>
    /\ Head(text.tokens) # " "
    /\ text.tokens[Len(text.tokens)] # " "

\* The conversation is `before` followed by one model message of that content.
OneModelMessageAdded(before, content) ==
    /\ Len(chatMessages) = Len(before) + 1
    /\ \A i \in 1..Len(before) : chatMessages[i] = before[i]
    /\ chatMessages[Len(chatMessages)].role = "model"
    /\ chatMessages[Len(chatMessages)].content = content
    /\ chatMessages[Len(chatMessages)].audio = JUndefined

(***************************************************************************)
(* C13 as stated.  Starting with no open message, a run of agent-response  *)
(* payloads each carrying one text sub-object, of which only the last      *)
(* signals completion (on the outer payload), adds exactly one model       *)
(* message whose content is the texts joined by single spaces in arrival   *)
(* order, and leaves no message open.                                      *)
(***************************************************************************)
C13_RunBecomesOneMessage ==
    \A k \in 0..Len(delivered) :
        LET before == Replay(Opened, SubSeq(delivered, 1, k))
        IN  (before.incomingMessageRef = JNull
             /\ IsTextRun(delivered, k + 1, Len(delivered)))
            => /\ OneModelMessageAdded(before.chatMessages,
                      Join(RunTexts(delivered, k + 1, Len(delivered))))
               /\ incomingMessageRef = JNull

(***************************************************************************)
(* C13 amended.  As stated when every text of the run is non-empty and has *)
(* no leading or trailing whitespace.  For any run, no message is open     *)
(* afterwards and at most one message was added, none when every text is   *)
(* empty.                                                                  *)
(***************************************************************************)
C13_CleanRunBecomesOneMessage ==
    \A k \in 0..Len(delivered) :
        LET before == Replay(Opened, SubSeq(delivered, 1, k))
            texts == RunTexts(delivered, k + 1, Len(delivered))
        IN  (before.incomingMessageRef = JNull
             /\ IsTextRun(delivered, k + 1, Len(delivered)))
            => /\ incomingMessageRef = JNull
               /\ (\A i \in 1..Len(texts) : IsCleanText(texts[i]))
                  => OneModelMessageAdded(before.chatMessages, Join(texts))
               /\ (\A i \in 1..Len(texts) : texts[i].tokens = <<>>)
                  => chatMessages = before.chatMessages
               /\ Len(chatMessages) <= Len(before.chatMessages) + 1

\* After a user message: Hi, then there with the completion, became the one
\* closed model message "Hi there".
C13_Witness ==
    /\ delivered = <<UserFinalFrame, TextFrame(Hi), CompletedTextFrame(There)>>
    /\ Len(chatMessages) = 2
    /\ chatMessages[2].role = "model"
    /\ chatMessages[2].content = Text(<<"Hi", " ", "there">>)
    /\ incomingMessageRef = JNull

(***************************************************************************)
(* C14.  There is at most one open message, the one incomingMessageRef     *)
(* refers to; when one is open it has role model and appears exactly once  *)
(* in the conversation, with the content and audio of the reference; and   *)
(* no step changes a message other than the open one, so every text or     *)
(* audio delta is applied to the open message and to no other.             *)
(***************************************************************************)
OpenMessageIsInConversation ==
    MessageOpen
    => /\ incomingMessageRef.role = "model"
       /\ Cardinality(OpenPositions) = 1
       /\ \A i \in OpenPositions : chatMessages[i] = incomingMessageRef

C14_OneOpenMessage ==
    /\ []OpenMessageIsInConversation
    /\ [][ClosedMessagesKept]_vars

\* A closed model message, then a text delta that opened a second one.
C14_Witness ==
    /\ delivered = <<CompletedTextFrame(There), TextFrame(Hi)>>
    /\ Len(chatMessages) = 2
    /\ chatMessages[1].content = There
    /\ chatMessages[2].content = Hi
    /\ OpenPositions = {2}

(***************************************************************************)
(* C15.  A finalization closes the message that was open, a message that   *)
(* is not open never changes, a closed message is never reopened: a delta  *)
(* that arrives when no message is open appends a message with an id that  *)
(* no message has; and no message is removed from the conversation or      *)
(* moved in it.                                                            *)
(***************************************************************************)
Ids == {chatMessages[i].id : i \in 1..Len(chatMessages)}

Applied(event) == \E i \in 1..Len(emitted') : emitted'[i] = event

FinalizationCloses ==
    \A frame \in ExchangeFrames :
        (OnMessage(frame) /\ Applied("finalize") /\ MessageOpen)
        => \/ incomingMessageRef' = JNull
           \/ incomingMessageRef'.id \notin Ids

NeverReopened ==
    (incomingMessageRef' # JNull)
    => \/ MessageOpen /\ incomingMessageRef'.id = incomingMessageRef.id
       \/ incomingMessageRef'.id \notin Ids

DeltaOpensNewMessage ==
    \A frame \in ExchangeFrames :
        (OnMessage(frame) /\ ~MessageOpen /\ (Applied("text") \/ Applied("audio")))
        => /\ Len(chatMessages') > Len(chatMessages)
           /\ chatMessages'[Len(chatMessages) + 1].id \notin Ids
           /\ chatMessages'[Len(chatMessages) + 1].role = "model"

NeverRemovedOrReordered ==
    /\ Len(chatMessages') >= Len(chatMessages)
    /\ \A i \in 1..Len(chatMessages) : chatMessages'[i].id = chatMessages[i].id

C15_FinalizedIsFrozen ==
    [][ /\ FinalizationCloses
        /\ ClosedMessagesKept
        /\ NeverReopened
        /\ DeltaOpensNewMessage
        /\ NeverRemovedOrReordered ]_vars

\* A text message finalized by its payload, then an audio delta: the audio
\* went into a second message.
C15_Witness ==
    /\ delivered = <<CompletedTextFrame(There), AudioDeltaFrame>>
    /\ Len(chatMessages) = 2
    /\ chatMessages[1].content = There /\ chatMessages[1].audio = JUndefined
    /\ chatMessages[2].id # chatMessages[1].id
    /\ chatMessages[2].audio = ArrayBuffer(<<5, 6>>)
    /\ OpenPositions = {2}

(***************************************************************************)
(* C16 as stated.  After a frame whose handling ends with a TurnComplete   *)
(* (a close or close_stream message, or an agent-response whose outer      *)
(* payload or last sub-object is complete), no model message is open and   *)
(* currentSpeaker is user-waiting, whether or not a message was open when  *)
(* the frame arrived.                                                      *)
(***************************************************************************)
IsCloseMessage(frame) ==
    \/ HasType(PayloadOf(frame), "close")
    \/ HasType(PayloadOf(frame), "close_stream")

EndsWithCompletion(frame) ==
    /\ HasType(PayloadOf(frame), "agent-response")
    /\ LET responses == extractResponses(PayloadOf(frame))
       IN  /\ responses # <<>>
           /\ \/ IsTrue(responseIsComplete(PayloadOf(frame)))
              \/ IsTrue(responseIsComplete(responses[Len(responses)]))

EndsWithTurnComplete(frame) == IsCloseMessage(frame) \/ EndsWithCompletion(frame)

AwaitingUser ==
    /\ incomingMessageRef = JNull
    /\ currentSpeaker = S("user-waiting")

C16_AwaitingUserAfterTurnComplete ==
    [][\A frame \in AgentFrames :
          (OnMessage(frame) /\ EndsWithTurnComplete(frame)) => AwaitingUser']_vars

(***************************************************************************)
(* C17 as stated.  Among the events one agent-response payload produces,   *)
(* no text or audio delta comes after a finalization, and the payload adds *)
(* no message to the conversation once it has finalized one.               *)
(***************************************************************************)
Deltas == {"text", "audio"}

NoDeltaAfterFinalization(events) ==
    \A i, j \in 1..Len(events) :
        (i < j /\ events[i] = "finalize") => events[j] \notin Deltas

C17_FinalizationFollowsDeltas ==
    [][\A frame \in AgentFrames :
          (OnMessage(frame) /\ HasType(PayloadOf(frame), "agent-response"))
          => /\ NoDeltaAfterFinalization(emitted')
             /\ Applied("finalize") => incomingMessageRef' = JNull]_vars

(***************************************************************************)
(* C18.  The speaker token of a transcript is the first truthy of the      *)
(* fields speaker, role, participant, metadata.speaker and source; in any  *)
(* letter case it resolves to user, to model or to no role, and a          *)
(* transcript with no resolved role is handled as one of the user: a final *)
(* one becomes a user message, a partial one changes nothing; a transcript *)
(* of the model goes to the open model message.                            *)
(***************************************************************************)
FieldValue(payload, k) ==
    CASE k = 1 -> OptGet(payload, "speaker")
      [] k = 2 -> OptGet(payload, "role")
      [] k = 3 -> OptGet(payload, "participant")
      [] k = 4 -> OptGet(OptGet(payload, "metadata"), "speaker")
      [] k = 5 -> OptGet(payload, "source")

FirstTruthy(payload) ==
    LET truthy == {k \in 1..5 : Truthy(FieldValue(payload, k))}
    IN  IF truthy = {} THEN JUndefined
        ELSE FieldValue(payload, CHOOSE k \in truthy : \A j \in truthy : k <= j)

ResolvedRole(payload) ==
    LET token == FirstTruthy(payload)
    IN  IF token.t # "string" THEN "none"
        ELSE IF token.lower \in {"user", "customer", "caller"} THEN "user"
        ELSE IF token.lower \in {"assistant", "agent", "ai", "model", "bot", "system"}
        THEN "model"
        ELSE "none"

HandledAsUser(frame) ==
    IF IsTrue(isFinalTranscript(PayloadOf(frame)))
    THEN /\ Len(chatMessages') = Len(chatMessages) + 1
         /\ chatMessages'[Len(chatMessages')].role = "user"
         /\ chatMessages'[Len(chatMessages')].content = TranscriptText(frame)
         /\ incomingMessageRef' = JNull
         /\ currentSpeaker' = S("user")
    ELSE UNCHANGED <<chatMessages, incomingMessageRef, currentSpeaker>>

HandledAsModel(frame) ==
    /\ incomingMessageRef' # JNull
    /\ incomingMessageRef'.role = "model"
    /\ emitted' = <<"text">>
    /\ \A i \in 1..Len(chatMessages') :
          chatMessages'[i].role = "user" => i <= Len(chatMessages)

C18_SpeakerResolved ==
    [][\A frame \in SpeakerFrames :
          OnMessage(frame)
          => LET resolved == ResolvedRole(PayloadOf(frame))
             IN  /\ resolved = "user" => parseSpeaker(PayloadOf(frame)) = S("user")
                 /\ resolved = "model" => parseSpeaker(PayloadOf(frame)) = S("model")
                 /\ resolved = "none" => parseSpeaker(PayloadOf(frame)) = JNull
                 /\ resolved \in {"user", "none"} => HandledAsUser(frame)
                 /\ resolved = "model" => HandledAsModel(frame)]_vars

\* "Agent" in the speaker field went to a model message, then a token that
\* is no alias, with a lower-priority alias of the model, made a user message.
C18_Witness ==
    /\ delivered = <<Transcript([speaker |-> JStr("agent", {1}), is_final |-> Final]),
                     Transcript([role |-> S("operator"), source |-> S("agent"),
                                 is_final |-> Final])>>
    /\ Len(chatMessages) = 2
    /\ chatMessages[1].role = "model" /\ chatMessages[1].content = Hello
    /\ chatMessages[2].role = "user" /\ chatMessages[2].content = Hello
    /\ incomingMessageRef = JNull

(***************************************************************************)
(* C19.  A string frame that is not valid JSON produces no event and       *)
(* changes nothing but the count of frames received: the conversation, the *)
(* open message, the playback schedule and its sources, the speaker and    *)
(* the connection state are the same, the socket stays open, so the next   *)
(* frame is handled from the state the client was in.                      *)
(***************************************************************************)
MalformedFrame == StringFrame(InvalidText)

C19_MalformedJsonIsDropped ==
    [][OnMessage(MalformedFrame)
       => /\ emitted' = <<>>
          /\ socket' = READY_STATES.OPEN
          /\ UNCHANGED <<chatMessages, incomingMessageRef, scheduledAudioSourcesRef,
                         scheduledStartRef, audioSources, currentSpeaker,
                         connection, voice, microphoneOpen, audioContextRef>>]_vars

\* The malformed frame came while a message was open and audio was
\* scheduled; the message is still open and the audio still scheduled.
C19_Witness ==
    /\ delivered = <<AudioDeltaFrame, MalformedFrame>>
    /\ socket = READY_STATES.OPEN
    /\ emitted = <<>>
    /\ scheduledAudioSourcesRef # <<>>
    /\ Len(chatMessages) = 1
    /\ OpenPositions = {1}
    /\ currentSpeaker = S("model")

(***************************************************************************)
(* C20.  Every segment of the schedule starts at the greater of the clock  *)
(* of the audio context when it was scheduled and the end of the segment   *)
(* scheduled before it (the clock alone for the first segment after a      *)
(* clear): it does not start in the past, it starts no earlier than any    *)
(* earlier segment ends, the cursor is the end of the last segment, and a  *)
(* step lowers the cursor only by clearing the schedule.                   *)
(***************************************************************************)
Scheduled(k) == audioSources[scheduledAudioSourcesRef[k]]

EndOf(source) == source.start + source.duration

Later(a, b) == IF a < b THEN b ELSE a

ScheduleIsSequential ==
    /\ \A k \in 1..Len(scheduledAudioSourcesRef) :
          /\ Scheduled(k).start >= Scheduled(k).scheduledAt
          /\ Scheduled(k).start =
                IF k = 1 THEN Scheduled(k).scheduledAt
                ELSE Later(Scheduled(k).scheduledAt, EndOf(Scheduled(k - 1)))
          /\ \A j \in 1..(k - 1) : EndOf(Scheduled(j)) <= Scheduled(k).start
    /\ scheduledStartRef =
          IF scheduledAudioSourcesRef = <<>> THEN 0
          ELSE EndOf(Scheduled(Len(scheduledAudioSourcesRef)))

CursorLoweredOnlyByClear ==
    scheduledStartRef' < scheduledStartRef
    => /\ scheduledAudioSourcesRef' = <<>>
       /\ scheduledStartRef' = 0

C20_SegmentsAreSequential ==
    /\ []ScheduleIsSequential
    /\ [][CursorLoweredOnlyByClear]_vars

\* The first segment was scheduled when the clock was past the cursor and
\* starts at the clock; the second was scheduled while the first had not
\* ended and starts at its end.
C20_Witness ==
    /\ Len(scheduledAudioSourcesRef) = 2
    /\ Scheduled(1).scheduledAt = 1 /\ Scheduled(1).start = 1
    /\ Scheduled(2).scheduledAt = 1 /\ Scheduled(2).start = EndOf(Scheduled(1))
    /\ Scheduled(2).start > Scheduled(2).scheduledAt
    /\ scheduledStartRef = EndOf(Scheduled(2))

(***************************************************************************)
(* C21 as stated.  In every reachable state in which microphoneOpen is     *)
(* false no capture is active: no capture chain delivers audio to its      *)
(* onaudioprocess handler and no media track is live; this holds in        *)
(* particular when stopStreaming or the close or error handler of the      *)
(* socket has returned.                                                    *)
(***************************************************************************)
NoCaptureActive ==
    \A n \in 1..Len(captures) : ~Capturing(n) /\ ~captures[n].tracksLive

C21_NoCaptureWhenMicrophoneClosed == ~microphoneOpen => NoCaptureActive

(***************************************************************************)
(* C22 as stated.  A send() that throws while a frame is forwarded closes  *)
(* the opposite socket with code 1011: the upstream (Deepgram) socket when *)
(* the send to the client failed, the client socket when the send to       *)
(* upstream failed; and after a failed send the session reaches the state  *)
(* in which both sockets are closed.                                       *)
(***************************************************************************)
SendFailed ==
    \/ \E i \in 1..Len(toClient) : ~toClient[i].ok
    \/ \E i \in 1..Len(toDeepgram) : ~toDeepgram[i].ok

FailedSendClosesOpposite ==
    /\ \A frame \in DeepgramFrames :
          ( /\ DeepgramMessage(frame, FALSE)
            /\ Active(readyState["deepgramSocket"]) )
          => ClosesWith("deepgramSocket", 1011, "Forwarding error")
    /\ \A frame \in ClientFrames :
          ( /\ UpstreamMessage(frame, FALSE)
            /\ Active(readyState["upstream"]) )
          => ClosesWith("upstream", 1011, "Forwarding error")

C22_FailedSendEndsSession ==
    /\ [][FailedSendClosesOpposite]_vars
    /\ SendFailed ~> BothSocketsClosed

(***************************************************************************)
(* C23.  A client frame that arrives while the upstream socket is not OPEN *)
(* is discarded: the step makes no send() call, closes no socket and       *)
(* changes no readyState; and since every send() call of a step is for the *)
(* frame that step received, a discarded frame is not forwarded later.     *)
(***************************************************************************)
DroppedWhileNotOpen ==
    \A frame \in ClientFrames, sendOk \in BOOLEAN :
        ( /\ UpstreamMessage(frame, sendOk)
          /\ readyState["deepgramSocket"] # READY_STATES.OPEN )
        => /\ toDeepgram' = toDeepgram
           /\ closeCalls' = closeCalls
           /\ readyState' = readyState

OnlyTheArrivingFrameIsSent ==
    \A i \in (Len(toDeepgram) + 1)..Len(toDeepgram') :
        /\ Len(fromClient') = Len(fromClient) + 1
        /\ toDeepgram'[i].idx = Len(fromClient')

C23_FrameDroppedUntilOpen ==
    [][DroppedWhileNotOpen /\ OnlyTheArrivingFrameIsSent]_vars

\* The first client frame came while the upstream socket was connecting and
\* was never sent; the second came after the open event and was sent.
C23_Witness ==
    /\ Len(fromClient) = 2
    /\ Len(toDeepgram) = 1
    /\ toDeepgram[1].idx = 2 /\ toDeepgram[1].ok
    /\ closeCalls = <<>>
    /\ readyState["upstream"] = READY_STATES.OPEN
    /\ readyState["deepgramSocket"] = READY_STATES.OPEN

(***************************************************************************)
(* C24.  Every close() call of the bridge is made on a socket whose        *)
(* readyState is OPEN or CONNECTING at the call, one call at most per      *)
(* step; over the whole session close() is called at most once on each     *)
(* socket; and a close() that throws leaves the listener to complete: the  *)
(* event is recorded as delivered and the readyState of the target is      *)
(* unchanged.                                                              *)
(***************************************************************************)
CallsOn(sock) == {i \in 1..Len(closeCalls) : closeCalls[i].target = sock}

CloseCalledOnActiveSocket ==
    closeCalls' # closeCalls
    => /\ Len(closeCalls') = Len(closeCalls) + 1
       /\ SubSeq(closeCalls', 1, Len(closeCalls)) = closeCalls
       /\ Active(readyState[LastCall(closeCalls').target])
       /\ LastCall(closeCalls').outcome = "threw"
          => readyState'[LastCall(closeCalls').target]
                 = readyState[LastCall(closeCalls').target]

AtMostOneClosePerSocket ==
    \A sock \in {"upstream", "deepgramSocket"} : Cardinality(CallsOn(sock)) <= 1

ThrowingCloseIsCaught ==
    \A i \in 1..Len(closeCalls) :
        (closeCalls[i].outcome = "threw" /\ closeCalls[i].cause.event = "close")
        => Fired(closeCalls[i].cause.sock, "close")

C24_CloseIsGuarded ==
    /\ [](AtMostOneClosePerSocket /\ ThrowingCloseIsCaught)
    /\ [][CloseCalledOnActiveSocket]_vars

\* An error event closed the peer; the close event that followed found the
\* peer closing and did not call close() again.
C24_Witness ==
    /\ Fired("deepgramSocket", "error")
    /\ Fired("deepgramSocket", "close")
    /\ Cardinality(CallsOn("upstream")) = 1
    /\ readyState["upstream"] = READY_STATES.CLOSING

(***************************************************************************)
(* C25 as stated.  An object signals completion when its type is completed *)
(* or done, or its status is one of completed, complete, finished, done in *)
(* any letter case, or it has a completion_reason, or its done is true;    *)
(* responseIsComplete is true of every such object, whatever its other     *)
(* fields, so a payload whose sub-object or outer level signals completion *)
(* leaves no message open.                                                 *)
(***************************************************************************)
HasField(obj, key) == obj.t = "object" /\ key \in DOMAIN obj.fields

SignalsCompletion(obj) ==
    \/ HasField(obj, "type") /\ Get(obj, "type") \in {S("completed"), S("done")}
    \/ /\ HasField(obj, "status")
       /\ Get(obj, "status").t = "string"
       /\ Get(obj, "status").lower \in {"completed", "complete", "finished", "done"}
    \/ HasField(obj, "completion_reason")
    \/ HasField(obj, "done") /\ Get(obj, "done") = JBool(TRUE)

SubObjects(frame) == extractResponses(PayloadOf(frame))

C25_EachSignalCompletes ==
    [][\A frame \in CompletionFrames :
          OnMessage(frame)
          => /\ \A i \in 1..Len(SubObjects(frame)) :
                   SignalsCompletion(SubObjects(frame)[i])
                   => IsTrue(responseIsComplete(SubObjects(frame)[i]))
             /\ SignalsCompletion(PayloadOf(frame))
                => IsTrue(responseIsComplete(PayloadOf(frame)))
             /\ ( \/ SignalsCompletion(PayloadOf(frame))
                  \/ SignalsCompletion(SubObjects(frame)[Len(SubObjects(frame))]) )
                => incomingMessageRef' = JNull]_vars

(***************************************************************************)
(* C26 as stated.  A transcript payload is final when its is_final or      *)
(* final flag is set, or its type is final_transcript, or the first        *)
(* alternative under channel.alternatives, alternatives or                 *)
(* results.alternatives has a truthy confidence; a transcript of the user  *)
(* that is final in any of these ways adds a user message with its text.   *)
(***************************************************************************)
TranscriptTypes == {"transcript", "final_transcript"}

\* The transcript a frame carries: the payload itself, or its data field.
TranscriptOf(frame) ==
    LET payload == PayloadOf(frame)
    IN  IF \E name \in TranscriptTypes : HasType(payload, name) THEN payload
        ELSE IF payload.t = "object"
                /\ \E name \in TranscriptTypes : HasType(Get(payload, "data"), name)
        THEN Get(payload, "data")
        ELSE JUndefined

FirstAlternatives(payload) ==
    { OptIndex(OptGet(OptGet(payload, "channel"), "alternatives"), 0),
      OptIndex(OptGet(payload, "alternatives"), 0),
      OptIndex(OptGet(OptGet(payload, "results"), "alternatives"), 0) }

FinalAsStated(payload) ==
    \/ Truthy(OptGet(payload, "is_final"))
    \/ Truthy(OptGet(payload, "final"))
    \/ HasType(payload, "final_transcript")
    \/ \E alternative \in FirstAlternatives(payload) :
           Truthy(OptGet(alternative, "confidence"))

UserMessageAdded ==
    /\ Len(chatMessages') = Len(chatMessages) + 1
    /\ chatMessages'[Len(chatMessages')].role = "user"
    /\ chatMessages'[Len(chatMessages')].content = Hello

C26_FinalTranscriptMakesUserMessage ==
    [][\A frame \in FinalityFrames :
          (OnMessage(frame) /\ FinalAsStated(TranscriptOf(frame)))
          => UserMessageAdded]_vars

(***************************************************************************)
(* C27 as stated.  When a frame appends one text delta to an open message  *)
(* whose content is not empty, from a transcript of the model or from an   *)
(* agent-response, the new content is the old content, a space and the     *)
(* delta with every run of whitespace made one space and the ends trimmed: *)
(* it has no two adjacent whitespace characters and neither starts nor     *)
(* ends with whitespace.                                                   *)
(***************************************************************************)
IsNormalized(text) ==
    /\ text.tokens # <<>> => Head(text.tokens) # " "
    /\ text.tokens # <<>> => text.tokens[Len(text.tokens)] # " "
    /\ \A i \in 1..(Len(text.tokens) - 1) :
          ~(text.tokens[i] = " " /\ text.tokens[i + 1] = " ")

\* The text delta of a frame that carries one.
DeltaOf(frame) ==
    IF HasType(PayloadOf(frame), "transcript") THEN TranscriptText(frame)
    ELSE textFromResponse(extractResponses(PayloadOf(frame))[1])

AppendsOneDelta(frame) ==
    /\ OnMessage(frame)
    /\ MessageOpen
    /\ Truthy(incomingMessageRef.content)
    /\ emitted' = <<"text">>

C27_AppendNormalizes ==
    [][\A frame \in AgentFrames :
          AppendsOneDelta(frame)
          => /\ incomingMessageRef'.id = incomingMessageRef.id
             /\ incomingMessageRef'.content =
                   trim(replaceWhitespaceRuns(
                       SpaceJoined(incomingMessageRef.content, DeltaOf(frame))))
             /\ IsNormalized(incomingMessageRef'.content)]_vars

(***************************************************************************)
(* C28 as stated.  In every state in which it arrives, an audio delta of   *)
(* whole samples, as a binary frame or inside a response sub-object, is    *)
(* appended to the audio of the open message (a new one when none is open) *)
(* and adds one source to the playback schedule.                           *)
(***************************************************************************)
AudioBytes(frame) ==
    IF frame.kind = "binary" THEN frame.bytes
    ELSE audioFromResponse(extractResponses(PayloadOf(frame))[1]).bytes

\* The message the delta went to: the one that was open, or the new last one.
Receiver ==
    IF MessageOpen THEN CHOOSE i \in OpenPositions : TRUE
    ELSE Len(chatMessages) + 1

AudioAppended(frame) ==
    /\ Receiver <= Len(chatMessages')
    /\ chatMessages'[Receiver].audio =
          ArrayBuffer((IF MessageOpen /\ Truthy(incomingMessageRef.audio)
                       THEN incomingMessageRef.audio.bytes ELSE <<>>)
                      \o AudioBytes(frame))

AudioScheduled ==
    /\ Len(scheduledAudioSourcesRef') = Len(scheduledAudioSourcesRef) + 1
    /\ SubSeq(scheduledAudioSourcesRef', 1, Len(scheduledAudioSourcesRef))
          = scheduledAudioSourcesRef
    /\ Len(audioSources') = Len(audioSources) + 1

C28_AudioAppendedAndScheduled ==
    [][\A frame \in {AudioDeltaFrame, AudioResponseFrame} :
          OnMessage(frame) => AudioAppended(frame) /\ AudioScheduled]_vars

(***************************************************************************)
(* C29.  A transcript from which no text can be extracted, and a           *)
(* transcript with a text whose speaker resolves to the user and that is   *)
(* not final, change nothing: the conversation, the open message, the      *)
(* playback schedule with its cursor and its sources, and the current      *)
(* speaker are as they were.                                               *)
(***************************************************************************)
\* The transcript a frame hands to handleTranscriptMessage, if any.
DispatchedTranscript(frame) ==
    LET payload == PayloadOf(frame)
    IN  IF HasType(payload, "transcript") THEN payload
        ELSE IF payload.t = "object" /\ HasType(Get(payload, "data"), "transcript")
        THEN Get(payload, "data")
        ELSE JUndefined

WithoutText(payload) == ~Truthy(extractTranscriptText(payload))

PartialOfUser(payload) ==
    /\ Truthy(extractTranscriptText(payload))
    /\ parseSpeaker(payload) \in {S("user"), JNull}
    /\ ~FinalAsStated(payload)

IsIgnored(frame) ==
    /\ DispatchedTranscript(frame) # JUndefined
    /\ WithoutText(DispatchedTranscript(frame)) \/ PartialOfUser(DispatchedTranscript(frame))

C29_IgnoredTranscriptChangesNothing ==
    [][\A frame \in IgnoredFrames \cup {AudioDeltaFrame, TextFrame(Hi), UserFinalFrame} :
          (OnMessage(frame) /\ IsIgnored(frame))
          => UNCHANGED <<chatMessages, incomingMessageRef, scheduledAudioSourcesRef,
                         scheduledStartRef, audioSources, currentSpeaker>>]_vars

\* An audio delta opened a message and was scheduled; a transcript of the
\* user that is not final and a final one without a text then arrived, and
\* the message is still open, the segment still scheduled, the speaker still
\* the model.
C29_Witness ==
    /\ delivered = <<AudioDeltaFrame, UserPartialFrame, UserTranscript([is_final |-> JBool(TRUE)])>>
    /\ \A k \in 2..3 : IsIgnored(delivered[k])
    /\ Len(chatMessages) = 1
    /\ OpenPositions = {1}
    /\ chatMessages[1].audio = ArrayBuffer(<<5, 6>>)
    /\ scheduledAudioSourcesRef = <<1>>
    /\ ~audioSources[1].stopped
    /\ scheduledStartRef > 0
    /\ currentSpeaker = S("model")

(***************************************************************************)
(* C30 as stated.  While an audio context is in use, the next-start cursor *)
(* is at most the current time of that context plus the total duration of  *)
(* the segments scheduled on it; and the first segment scheduled on a      *)
(* context starts at the current time of that context.                     *)
(***************************************************************************)
RECURSIVE DurationOn(_, _)
\* The total duration of the first k scheduled segments that are on `context`.
DurationOn(context, k) ==
    IF k = 0 THEN 0
    ELSE DurationOn(context, k - 1)
         + (IF Scheduled(k).context = context THEN Scheduled(k).duration ELSE 0)

CursorWithinContext ==
    audioContextRef # JNull
    => scheduledStartRef <= audioContextRef.currentTime
                            + DurationOn(audioContextRef.id, Len(scheduledAudioSourcesRef))

\* This step scheduled a segment on a context that had none scheduled.
FirstOnContext ==
    /\ Len(audioSources') = Len(audioSources) + 1
    /\ \A k \in 1..Len(scheduledAudioSourcesRef) :
          Scheduled(k).context # audioSources'[Len(audioSources')].context

FirstOnContextStartsNow ==
    FirstOnContext
    => audioSources'[Len(audioSources')].start = audioContextRef.currentTime

C30_CursorWithinContext ==
    /\ []CursorWithinContext
    /\ [][FirstOnContextStartsNow]_vars

====
